---- MODULE Spec2Model ----
(***************************************************************************)
(* Model of the irrigation scheduling kernel planZoneSchedule and of its   *)
(* helpers buildCyclePlan, estimateSoakMinutes, clampValue and             *)
(* roundTo1Decimal, and of the weather client getWeatherData.              *)
(*                                                                         *)
(* Numbers.  The kernel computes in IEEE doubles.  The model computes in   *)
(* exact rational arithmetic: a number is a pair <<n, d>> with d > 0 and   *)
(* gcd(n, d) = 1, so equality of numbers is equality of pairs.  Depths are *)
(* in millimetres, durations in minutes, rates in mm/hr.  The three        *)
(* non-finite doubles a division by zero can produce are the pairs with    *)
(* d = 0: <<1, 0>> is Infinity, <<-1, 0>> is -Infinity, <<0, 0>> is NaN.   *)
(*                                                                         *)
(* Time.  A date is a day number; a date-time is an integer number of      *)
(* milliseconds since 00:00 of day 0, as dayjs keeps an integer epoch      *)
(* millisecond count; InvalidDate is the dayjs object whose time is NaN.   *)
(*                                                                         *)
(* Optional fields (`?:` in the TypeScript types) are <<>> when absent and *)
(* <<v>> when present.                                                     *)
(***************************************************************************)
EXTENDS Integers, Sequences, FiniteSets, TLC

VARIABLES zone, weatherHistory, pc, dayIndex, currentDepletionMillimeters,
          irrigationSchedule, day, ledger, returned, weatherCall

vars == <<zone, weatherHistory, pc, dayIndex, currentDepletionMillimeters,
          irrigationSchedule, day, ledger, returned, weatherCall>>

----------------------------------------------------------------------------
(* Bounds of the model.                                                    *)

MaxDays == 3

StartDate == 2

----------------------------------------------------------------------------
(* Exact rational arithmetic.                                              *)

Abs(x) == IF x < 0 THEN -x ELSE x

RECURSIVE GCD(_, _)
GCD(a, b) == IF b = 0 THEN a ELSE GCD(b, a % b)

Rat(n, d) == LET g == GCD(Abs(n), d) IN <<n \div g, d \div g>>

Zero == <<0, 1>>

Int2Rat(k) == <<k, 1>>

Tenths(k) == Rat(k, 10)

Hundredths(k) == Rat(k, 100)

PosInf == <<1, 0>>

NegInf == <<-1, 0>>

NaN == <<0, 0>>

\* Number.isFinite
IsFinite(a) == a[2] # 0

Sign(x) == IF x > 0 THEN 1 ELSE IF x < 0 THEN -1 ELSE 0

RNeg(a) == <<-a[1], a[2]>>

RAdd(a, b) ==
    IF IsFinite(a) /\ IsFinite(b)
    THEN LET g == GCD(a[2], b[2])
         IN  Rat(a[1] * (b[2] \div g) + b[1] * (a[2] \div g), (a[2] \div g) * b[2])
    ELSE IF IsFinite(b) THEN a
    ELSE IF IsFinite(a) \/ a = b THEN b
    ELSE NaN

RSub(a, b) == RAdd(a, RNeg(b))

RMul(a, b) ==
    IF IsFinite(a) /\ IsFinite(b)
    THEN LET g1 == GCD(Abs(a[1]), b[2])
             g2 == GCD(Abs(b[1]), a[2])
         IN  Rat((a[1] \div g1) * (b[1] \div g2), (a[2] \div g2) * (b[2] \div g1))
    ELSE <<Sign(a[1]) * Sign(b[1]), 0>>

\* a / b: x / 0 is Infinity, -Infinity or NaN by the sign of x
RDiv(a, b) ==
    IF ~IsFinite(b) THEN (IF IsFinite(a) /\ b # NaN THEN Zero ELSE NaN)
    ELSE IF b[1] = 0 THEN <<Sign(a[1]), 0>>
    ELSE IF b[1] > 0 THEN RMul(a, <<b[2], b[1]>>)
    ELSE RMul(a, <<-b[2], -b[1]>>)

\* a <= b; every comparison with NaN is false
RLeq(a, b) ==
    IF a = NaN \/ b = NaN THEN FALSE
    ELSE IF IsFinite(a) /\ IsFinite(b)
    THEN LET g == GCD(a[2], b[2])
         IN  a[1] * (b[2] \div g) <= b[1] * (a[2] \div g)
    ELSE a = NegInf \/ b = PosInf

RLt(a, b) == RLeq(a, b) /\ a # b

RGeq(a, b) == RLeq(b, a)

RGt(a, b) == RLt(b, a)

\* Math.max, Math.min
MathMax(a, b) == IF a = NaN \/ b = NaN THEN NaN ELSE IF RLeq(a, b) THEN b ELSE a

MathMin(a, b) == IF a = NaN \/ b = NaN THEN NaN ELSE IF RLeq(a, b) THEN a ELSE b

\* Math.floor, Math.ceil of a finite number (\div rounds towards minus infinity)
MathFloor(a) == a[1] \div a[2]

MathCeil(a) == -((-a[1]) \div a[2])

\* Math.round of a finite number: the nearest integer, a tie going towards
\* plus infinity
MathRound(a) == MathFloor(RAdd(a, <<1, 2>>))

\* ceil(a * k) for an integer k > 0, without forming the product a[1] * k
CeilTimes(a, k) ==
    LET q == a[1] \div a[2]
        r == a[1] % a[2]
    IN  q * k + MathCeil(Rat(r * k, a[2]))

----------------------------------------------------------------------------
(* Optional values.                                                        *)

None == <<>>

Some(v) == <<v>>

\* opt ?? dflt
Nullish(opt, dflt) == IF opt = None THEN dflt ELSE opt[1]

----------------------------------------------------------------------------
(* Date-times (dayjs).                                                     *)

MsPerMinute == 60 * 1000

MsPerDay == 24 * 60 * MsPerMinute

\* date.hour(h).minute(m).second(0) of the calendar day `date`
AtClock(date, h, m) == date * MsPerDay + (h * 60 + m) * MsPerMinute

\* the date-time whose epoch milliseconds are NaN
InvalidDate == -1

\* t.subtract(minutes, 'minute'): dayjs adds -minutes * 60000 to the epoch
\* milliseconds and the Date it builds drops the fraction of a millisecond
\* (towards zero; epoch times are positive, so downwards).  A time that is
\* not finite gives the invalid date.
SubtractMinutes(t, minutes) ==
    IF t = InvalidDate \/ ~IsFinite(minutes) THEN InvalidDate
    ELSE t - CeilTimes(minutes, MsPerMinute)

\* t.add(minutes, 'minute')
AddMinutes(t, minutes) ==
    IF t = InvalidDate \/ ~IsFinite(minutes) THEN InvalidDate
    ELSE t + MathFloor(RMul(minutes, Int2Rat(MsPerMinute)))

----------------------------------------------------------------------------
(* Helpers of the kernel.                                                  *)

\* clampValue without its upper bound
clampValue_NoUpperBound(value, min, max) == MathMax(min, value)

clampValue(value, min, max) == MathMax(min, MathMin(max, value))

\* Math.round(value * 10) / 10; Math.round leaves Infinity and NaN as they are
roundTo1Decimal(value) ==
    IF IsFinite(value) THEN Rat(MathRound(RMul(value, Int2Rat(10))), 10) ELSE value

\* a rate on a boundary gets the longer soak
estimateSoakMinutes_BoundaryLonger(infiltrationRateMmHr) ==
    IF RGt(infiltrationRateMmHr, Int2Rat(20)) THEN Int2Rat(15)
    ELSE IF RGt(infiltrationRateMmHr, Int2Rat(12)) THEN Int2Rat(25)
    ELSE IF RGt(infiltrationRateMmHr, Int2Rat(8)) THEN Int2Rat(35)
    ELSE IF RGt(infiltrationRateMmHr, Int2Rat(5)) THEN Int2Rat(45)
    ELSE Int2Rat(60)

\* lines 164-170
estimateSoakMinutes(infiltrationRateMmHr) ==
    IF RGeq(infiltrationRateMmHr, Int2Rat(20)) THEN Int2Rat(15)
    ELSE IF RGeq(infiltrationRateMmHr, Int2Rat(12)) THEN Int2Rat(25)
    ELSE IF RGeq(infiltrationRateMmHr, Int2Rat(8)) THEN Int2Rat(35)
    ELSE IF RGeq(infiltrationRateMmHr, Int2Rat(5)) THEN Int2Rat(45)
    ELSE Int2Rat(60)

\* the offsets add up the durations as they are reported, rounded
RECURSIVE cycleStartOffsetMinutes_FromReported(_, _, _)
cycleStartOffsetMinutes_FromReported(i, perCycle, soakTime) ==
    IF i = 0
    THEN RAdd(Zero, roundTo1Decimal(perCycle))
    ELSE RAdd(RAdd(cycleStartOffsetMinutes_FromReported(i - 1, perCycle, soakTime),
                   soakTime),
              roundTo1Decimal(perCycle))

\* cycleStartOffsetMinutes of loop iteration i (0-based) of buildCyclePlan:
\* totalMinutesBeforeSunrise starts at 0 and grows by the cycle and the soak.
RECURSIVE cycleStartOffsetMinutes(_, _, _)
cycleStartOffsetMinutes(i, perCycle, soakTime) ==
    IF i = 0
    THEN RAdd(Zero, perCycle)
    ELSE RAdd(RAdd(cycleStartOffsetMinutes(i - 1, perCycle, soakTime), soakTime),
              perCycle)

Reverse(s) == [k \in 1..Len(s) |-> s[Len(s) + 1 - k]]

\* a runtime equal to the maximum cycle is split in two
fitsSingleCycle_Strict(totalRunTime, maximumCycle) ==
    RLeq(maximumCycle, Zero) \/ RLt(totalRunTime, maximumCycle)

\* line 128: the whole runtime goes in one cycle
fitsSingleCycle(totalRunTime, maximumCycle) ==
    RLeq(maximumCycle, Zero) \/ RLeq(totalRunTime, maximumCycle)

\* the quotient is rounded down, never below one cycle
numberOfCycles_Floor(totalRunTime, maximumCycle) ==
    IF MathFloor(RDiv(totalRunTime, maximumCycle)) < 1 THEN 1
    ELSE MathFloor(RDiv(totalRunTime, maximumCycle))

\* line 134; a quotient that is NaN gives a count the loop of line 140 never
\* runs for (i < NaN is false)
numberOfCycles(totalRunTime, maximumCycle) ==
    IF RDiv(totalRunTime, maximumCycle) = NaN THEN 0
    ELSE MathCeil(RDiv(totalRunTime, maximumCycle))

\* each cycle runs a whole number of minutes
perCycleMinutes_WholeMinutes(totalRunTime, count) ==
    Int2Rat(MathFloor(RDiv(totalRunTime, Int2Rat(count))))

\* line 135
perCycleMinutes(totalRunTime, count) == RDiv(totalRunTime, Int2Rat(count))

buildCyclePlan(totalRunTimeMinutes, maximumCycleMinutes, sunrise, soakTimeMinutes) ==
    IF RLeq(totalRunTimeMinutes, Zero) THEN <<>>
    ELSE IF fitsSingleCycle(totalRunTimeMinutes, maximumCycleMinutes)
    THEN << [startTime   |-> SubtractMinutes(sunrise, totalRunTimeMinutes),
             durationMin |-> roundTo1Decimal(totalRunTimeMinutes)] >>
    ELSE LET count    == numberOfCycles(totalRunTimeMinutes, maximumCycleMinutes)
             perCycle == perCycleMinutes(totalRunTimeMinutes, count)
             cyclesInReverse ==
                 [k \in 1..count |->
                    [startTime   |-> SubtractMinutes(sunrise,
                                        cycleStartOffsetMinutes(k - 1, perCycle,
                                                                soakTimeMinutes)),
                     durationMin |-> roundTo1Decimal(perCycle)]]
         IN  Reverse(cyclesInReverse)

----------------------------------------------------------------------------
(* The preamble of planZoneSchedule: values derived from the zone.         *)

totalAvailableWaterMillimeters(z) ==
    RMul(z.soil.availableWaterHoldingCapacityMmPerM, z.rootDepthM)

\* the fraction is taken as the share of water to keep
readilyAvailableWaterMillimeters_Kept(z) ==
    RMul(RSub(Int2Rat(1), z.allowableDepletionFraction), totalAvailableWaterMillimeters(z))

\* line 18
readilyAvailableWaterMillimeters(z) ==
    RMul(z.allowableDepletionFraction, totalAvailableWaterMillimeters(z))

\* the explicit rate is never looked at
precipitationRateMillimetersPerHour_Derived(z) ==
    RMul(Int2Rat(60), RDiv(z.flowRateLPerMin, z.areaM2))

\* line 21
precipitationRateMillimetersPerHour(z) ==
    Nullish(z.precipitationRateMmPerHr,
            RMul(Int2Rat(60), RDiv(z.flowRateLPerMin, z.areaM2)))

soakTimeMinutes(z) == estimateSoakMinutes(z.soil.infiltrationRateMmPerHr)

\* the zone's value is taken as it is
initialDepletionMillimeters_Unclamped(z) == Nullish(z.currentDepletionMm, Zero)

\* the accumulator outlives the call: a call begins from the depletion the
\* previous one ended with
initialDepletionMillimeters_Persisted(z) ==
    IF returned = <<>>
    THEN clampValue(Nullish(z.currentDepletionMm, Zero), Zero,
                    totalAvailableWaterMillimeters(z))
    ELSE clampValue(currentDepletionMillimeters, Zero, totalAvailableWaterMillimeters(z))

\* line 28
initialDepletionMillimeters(z) ==
    clampValue(Nullish(z.currentDepletionMm, Zero), Zero, totalAvailableWaterMillimeters(z))

----------------------------------------------------------------------------
(* The per-day computations of planZoneSchedule.                           *)

resolveSunrise(weatherDay) ==
    Nullish(weatherDay.sunrise, AtClock(weatherDay.date, 6, 0))

\* a negative reference ET is used as it is
cropEvapotranspiration_Signed(z, weatherDay) ==
    RMul(z.grassType.cropCoefficient,
         Nullish(weatherDay.evapotranspirationMmPerDay, Zero))

\* lines 38-39
cropEvapotranspiration(z, weatherDay) ==
    LET referenceEvapotranspiration ==
            MathMax(Zero, Nullish(weatherDay.evapotranspirationMmPerDay, Zero))
    IN  RMul(z.grassType.cropCoefficient, referenceEvapotranspiration)

\* 2 mm of rain still counts as none
effectiveRainfallMillimeters_ThresholdExcluded(weatherDay) ==
    LET rainfallMillimeters == Nullish(weatherDay.rainfallMm, Zero)
    IN  IF RLeq(rainfallMillimeters, Int2Rat(2))
        THEN Zero
        ELSE RMul(Rat(8, 10), rainfallMillimeters)

effectiveRainfallMillimeters(weatherDay) ==
    LET rainfallMillimeters == Nullish(weatherDay.rainfallMm, Zero)
    IN  IF RLt(rainfallMillimeters, Int2Rat(2))
        THEN Zero
        ELSE RMul(Rat(8, 10), rainfallMillimeters)

\* the enabled flag is never looked at
isDisabled_Never(z) == FALSE

\* line 13: zone.isEnabled === false
isDisabled(z) == z.isEnabled = Some(FALSE)

\* lines 45-49: the depletion after the day's ET and rainfall
\* the day's rain is left out of the day's balance
advanceDepletion_WithoutRain(z, depletion, weatherDay) ==
    clampValue(RAdd(depletion, cropEvapotranspiration(z, weatherDay)),
               Zero, totalAvailableWaterMillimeters(z))

\* lines 45-49
advanceDepletion(z, depletion, weatherDay) ==
    clampValue(RSub(RAdd(depletion, cropEvapotranspiration(z, weatherDay)),
                    effectiveRainfallMillimeters(weatherDay)),
               Zero, totalAvailableWaterMillimeters(z))

\* the trigger with > in place of >=
irrigationNeeded_Strict(z, depletion) ==
    RGt(depletion, readilyAvailableWaterMillimeters(z))

\* the trigger waits until the soil is at its full deficit
irrigationNeeded_AtCapacity(z, depletion) ==
    RGeq(depletion, totalAvailableWaterMillimeters(z))

\* line 52
irrigationNeeded(z, depletion) ==
    RGeq(depletion, readilyAvailableWaterMillimeters(z))

\* the gross depth without the cap at TAW
grossIrrigationDepthMillimeters_NoCap(z, netIrrigationDepthMillimeters) ==
    RDiv(netIrrigationDepthMillimeters, z.irrigationEfficiency)

\* the efficiency multiplies the net depth
grossIrrigationDepthMillimeters_Multiplied(z, netIrrigationDepthMillimeters) ==
    MathMin(RMul(netIrrigationDepthMillimeters, z.irrigationEfficiency),
            totalAvailableWaterMillimeters(z))

\* lines 59-63
grossIrrigationDepthMillimeters(z, netIrrigationDepthMillimeters) ==
    MathMin(RDiv(netIrrigationDepthMillimeters, z.irrigationEfficiency),
            totalAvailableWaterMillimeters(z))

\* line 66
totalRunTimeMinutes(z, grossDepth) ==
    RMul(RDiv(grossDepth, precipitationRateMillimetersPerHour(z)), Int2Rat(60))

\* the maximum cycle applies half an hour of infiltration
maximumCycleMinutes_HalfHour(z, totalRunTime) ==
    IF RGt(z.soil.infiltrationRateMmPerHr, Zero)
    THEN RMul(RDiv(z.soil.infiltrationRateMmPerHr, precipitationRateMillimetersPerHour(z)),
              Int2Rat(30))
    ELSE totalRunTime

\* lines 69-72
maximumCycleMinutes(z, totalRunTime) ==
    IF RGt(z.soil.infiltrationRateMmPerHr, Zero)
    THEN RMul(RDiv(z.soil.infiltrationRateMmPerHr, precipitationRateMillimetersPerHour(z)),
              Int2Rat(60))
    ELSE totalRunTime

\* the irrigation leaves the depletion where it was
depletionAfterIrrigation_NoReset == currentDepletionMillimeters

\* what the capped gross depth could not refill stays in the soil's deficit
depletionAfterIrrigation_Residual ==
    MathMax(Zero,
            RSub(currentDepletionMillimeters,
                 RMul(MathMin(RDiv(currentDepletionMillimeters, zone.irrigationEfficiency),
                              RMul(zone.soil.availableWaterHoldingCapacityMmPerM,
                                   zone.rootDepthM)),
                      zone.irrigationEfficiency)))

\* line 83
depletionAfterIrrigation == Zero

\* every entry dated with the first day of the weather
entryDate_FirstDay(weatherDay) == weatherHistory[1].date

\* line 86: the date an entry carries
entryDate(weatherDay) == weatherDay.date

\* lines 85-92: the entry pushed for an irrigation day
scheduleEntry(z, weatherDay, depletionBeforeIrrigation) ==
    LET gross    == grossIrrigationDepthMillimeters(z, depletionBeforeIrrigation)
        runTime  == totalRunTimeMinutes(z, gross)
    IN  [date              |-> entryDate(weatherDay),
         zoneId            |-> z.id,
         cycles            |-> buildCyclePlan(runTime, maximumCycleMinutes(z, runTime),
                                              resolveSunrise(weatherDay), soakTimeMinutes(z)),
         appliedDepthMm    |-> roundTo1Decimal(gross),
         depletionBeforeMm |-> roundTo1Decimal(depletionBeforeIrrigation),
         depletionAfterMm  |-> roundTo1Decimal(depletionAfterIrrigation)]

\* the day's ET and rainfall not applied again
reapplyAfterIrrigation_Skipped(z, weatherDay) == depletionAfterIrrigation

\* only the day's ET is applied again, not its rainfall
reapplyAfterIrrigation_WithoutRain(z, weatherDay) ==
    clampValue(RAdd(depletionAfterIrrigation, cropEvapotranspiration(z, weatherDay)),
               Zero, totalAvailableWaterMillimeters(z))

\* lines 95-99: the day's ET and rainfall applied again after the irrigation
reapplyAfterIrrigation(z, weatherDay) ==
    clampValue(RSub(RAdd(depletionAfterIrrigation, cropEvapotranspiration(z, weatherDay)),
                    effectiveRainfallMillimeters(weatherDay)),
               Zero, totalAvailableWaterMillimeters(z))

\* line 103
finalClamp(z, depletion) == clampValue(depletion, Zero, totalAvailableWaterMillimeters(z))

----------------------------------------------------------------------------
(* Inputs: zones.                                                          *)

\* SOIL_TYPES of the zone fixtures, and a soil that takes no water in
Sand == [availableWaterHoldingCapacityMmPerM |-> Int2Rat(75),
         infiltrationRateMmPerHr |-> Int2Rat(50)]

Loam == [availableWaterHoldingCapacityMmPerM |-> Int2Rat(150),
         infiltrationRateMmPerHr |-> Int2Rat(25)]

Clay == [availableWaterHoldingCapacityMmPerM |-> Int2Rat(200),
         infiltrationRateMmPerHr |-> Int2Rat(4)]

Sealed == [availableWaterHoldingCapacityMmPerM |-> Int2Rat(150),
           infiltrationRateMmPerHr |-> Zero]

\* createTestZone(): TAW = 45 mm, RAW = 22.5 mm, 9 mm/hr
TestZone ==
    [id                         |-> "test-zone-001",
     grassType                  |-> [cropCoefficient |-> Hundredths(85)],
     soil                       |-> Loam,
     rootDepthM                 |-> Tenths(3),
     allowableDepletionFraction |-> Tenths(5),
     irrigationEfficiency       |-> Tenths(8),
     flowRateLPerMin            |-> Int2Rat(15),
     areaM2                     |-> Int2Rat(100),
     precipitationRateMmPerHr   |-> Some(Int2Rat(9)),
     currentDepletionMm         |-> Some(Zero),
     isEnabled                  |-> Some(TRUE)]

\* createTestZone({ currentDepletionMm }) for the depletions of the tests:
\* unset, below zero, below RAW, one dry day short of RAW, above RAW, above TAW
DepletionZones ==
    { [TestZone EXCEPT !.currentDepletionMm = d] :
        d \in { None, Some(Int2Rat(-10)), Some(Int2Rat(5)), Some(Tenths(208)),
                Some(Int2Rat(25)), Some(Int2Rat(100)) } }

\* the enabled flag: absent, and explicitly false
FlagZones ==
    { [TestZone EXCEPT !.isEnabled = None, !.currentDepletionMm = Some(Int2Rat(25))],
      [TestZone EXCEPT !.isEnabled = Some(FALSE), !.currentDepletionMm = Some(Int2Rat(25))] }

\* low efficiency: the gross depth reaches the cap at TAW
LowEfficiencyZone ==
    [TestZone EXCEPT !.irrigationEfficiency = Tenths(6),
                     !.currentDepletionMm = Some(Int2Rat(40))]

\* clay, rate derived from flow and area (60 * 20 / 30 = 40 mm/hr): TAW = 60 mm
ClayZone ==
    [TestZone EXCEPT !.soil = Clay, !.flowRateLPerMin = Int2Rat(20),
                     !.areaM2 = Int2Rat(30), !.precipitationRateMmPerHr = None,
                     !.currentDepletionMm = Some(Int2Rat(29))]

\* sand and shallow roots: TAW = 75 * 0.15 = 11.25 mm
ShallowSandZone ==
    [TestZone EXCEPT !.soil = Sand, !.rootDepthM = Hundredths(15),
                     !.currentDepletionMm = Some(Int2Rat(100))]

\* low efficiency below the cap: 25.1 / 0.6 mm is not a whole number of
\* milliseconds of runtime
LowEfficiencyUncappedZone ==
    [TestZone EXCEPT !.irrigationEfficiency = Tenths(6),
                     !.currentDepletionMm = Some(Int2Rat(25))]

\* efficiency 1: a depletion of 25 mm asks for a gross depth equal to the
\* infiltration of one hour, so the runtime equals the maximum cycle
FullEfficiencyZone ==
    [TestZone EXCEPT !.irrigationEfficiency = Int2Rat(1),
                     !.currentDepletionMm = Some(Int2Rat(25))]

\* no explicit rate and a flow of 0 L/min: within the caller's preconditions
\* (flow not negative, area not zero)
ZeroFlowZone ==
    [TestZone EXCEPT !.flowRateLPerMin = Zero, !.precipitationRateMmPerHr = None,
                     !.currentDepletionMm = Some(Int2Rat(25))]

\* an explicit rate of 20 mm/hr where flow and area give 9 mm/hr
CustomRateZone ==
    [TestZone EXCEPT !.precipitationRateMmPerHr = Some(Int2Rat(20)),
                     !.currentDepletionMm = Some(Int2Rat(25))]

\* Kc 0.8: on a day with ET0 2 and 2 mm of rain the crop ET equals the
\* effective rain
RainBalancedZone ==
    [TestZone EXCEPT !.grassType = [cropCoefficient |-> Tenths(8)],
                     !.currentDepletionMm = Some(Int2Rat(20))]

\* infiltration 0: one cycle, however long
SealedZone ==
    [TestZone EXCEPT !.soil = Sealed, !.currentDepletionMm = Some(Int2Rat(25))]

\* every field within the caller's preconditions, RAW = 0.01 * 75 * 0.05 mm
ThinZone ==
    [TestZone EXCEPT !.soil = Sand, !.rootDepthM = Hundredths(5),
                     !.allowableDepletionFraction = Hundredths(1),
                     !.irrigationEfficiency = Int2Rat(1),
                     !.flowRateLPerMin = Int2Rat(20), !.areaM2 = Int2Rat(20),
                     !.precipitationRateMmPerHr = None,
                     !.grassType = [cropCoefficient |-> Int2Rat(1)],
                     !.currentDepletionMm = Some(Hundredths(4))]

\* a low flow over the default area: 60 * 2 / 100 = 1.2 mm/hr, RAW reached on
\* the second default day
LowFlowZone ==
    [TestZone EXCEPT !.flowRateLPerMin = Int2Rat(2), !.precipitationRateMmPerHr = None,
                     !.currentDepletionMm = Some(Int2Rat(20))]

Zones ==
    DepletionZones \cup FlagZones
        \cup {LowEfficiencyZone, ClayZone, ShallowSandZone, SealedZone, ThinZone,
              LowEfficiencyUncappedZone, FullEfficiencyZone, ZeroFlowZone,
              CustomRateZone, RainBalancedZone, LowFlowZone}

----------------------------------------------------------------------------
(* Inputs: weather.                                                        *)

\* the weather of one day, before its date is known
DayKinds ==
    { \* createWeatherDay(): ET0 2.0, no rain
      [evapotranspirationMmPerDay |-> Some(Int2Rat(2)), rainfallMm |-> Some(Zero),
       clock |-> Some(<<6, 0>>)],
      \* nothing but the date
      [evapotranspirationMmPerDay |-> None, rainfallMm |-> None, clock |-> None],
      \* negative ET0, rain just under the threshold
      [evapotranspirationMmPerDay |-> Some(Int2Rat(-1)), rainfallMm |-> Some(Hundredths(199)),
       clock |-> Some(<<6, 0>>)],
      \* rain at the threshold
      [evapotranspirationMmPerDay |-> Some(Int2Rat(2)), rainfallMm |-> Some(Int2Rat(2)),
       clock |-> Some(<<6, 0>>)],
      \* heavy rain
      [evapotranspirationMmPerDay |-> Some(Int2Rat(2)), rainfallMm |-> Some(Int2Rat(15)),
       clock |-> Some(<<6, 0>>)],
      \* a hot day with an early sunrise
      [evapotranspirationMmPerDay |-> Some(Int2Rat(6)), rainfallMm |-> Some(Zero),
       clock |-> Some(<<4, 30>>)] }

\* DailyWeather of the day kind k on the calendar day date
DailyWeather(k, date) ==
    [date                       |-> date,
     evapotranspirationMmPerDay |-> k.evapotranspirationMmPerDay,
     rainfallMm                 |-> k.rainfallMm,
     sunrise                    |-> IF k.clock = None THEN None
                                    ELSE Some(AtClock(date, k.clock[1][1], k.clock[1][2]))]

\* chronological weather on consecutive days from StartDate, at most MaxDays long
WeatherHistories ==
    UNION { { [i \in 1..n |-> DailyWeather(ks[i], StartDate + i - 1)] :
                ks \in [1..n -> DayKinds] } : n \in 0..MaxDays }

-----------------------------------------------------------------------------
(* getWeatherData: the Open-Meteo client.                                  *)
(*                                                                         *)
(* A JSON string is the sequence of its characters.  dayjs(text) is        *)
(* modelled from the behaviour of the library: an ISO date or date-time is *)
(* read field by field into local time (the model's zone is UTC), any      *)
(* other text gives the invalid date, and dayjs(undefined) is the current  *)
(* time.  Array indices are 1-based here, 0-based in the source.           *)

MaxReadings == 2

DigitChars == <<"0", "1", "2", "3", "4", "5", "6", "7", "8", "9">>

IsDigit(c) == \E k \in 1..10 : DigitChars[k] = c

DigitValue(c) == (CHOOSE k \in 1..10 : DigitChars[k] = c) - 1

AllDigits(text, from, to) == \A i \in from..to : IsDigit(text[i])

RECURSIVE DigitsValue(_, _, _)
DigitsValue(text, from, to) ==
    IF to < from THEN 0
    ELSE 10 * DigitsValue(text, from, to - 1) + DigitValue(text[to])

\* YYYY-MM-DD
HasDateShape(text) ==
    /\ Len(text) >= 10
    /\ AllDigits(text, 1, 4) /\ text[5] = "-"
    /\ AllDigits(text, 6, 7) /\ text[8] = "-"
    /\ AllDigits(text, 9, 10)

\* YYYY-MM-DDTHH:mm
HasDateTimeShape(text) ==
    /\ HasDateShape(text)
    /\ Len(text) = 16
    /\ text[11] = "T"
    /\ AllDigits(text, 12, 13) /\ text[14] = ":"
    /\ AllDigits(text, 15, 16)

\* days from 1970-01-01 to the civil date y-m-d
DaysFromCivil(y, m, d) ==
    LET year      == IF m <= 2 THEN y - 1 ELSE y
        era       == year \div 400
        yearOfEra == year - era * 400
        dayOfYear == (153 * (IF m > 2 THEN m - 3 ELSE m + 9) + 2) \div 5 + d - 1
        dayOfEra  == yearOfEra * 365 + yearOfEra \div 4 - yearOfEra \div 100 + dayOfYear
    IN  era * 146097 + dayOfEra - 719468

\* dayjs(text): the epoch milliseconds of the date-time the text spells
parseDate(text) ==
    IF HasDateShape(text) /\ (Len(text) = 10 \/ HasDateTimeShape(text))
    THEN LET days == DaysFromCivil(DigitsValue(text, 1, 4), DigitsValue(text, 6, 7),
                                   DigitsValue(text, 9, 10))
             h    == IF Len(text) = 16 THEN DigitsValue(text, 12, 13) ELSE 0
             mi   == IF Len(text) = 16 THEN DigitsValue(text, 15, 16) ELSE 0
         IN  AtClock(days, h, mi)
    ELSE InvalidDate

\* dayjs(value) for a value that may be undefined
dayjs(value, now) == IF value = None THEN now ELSE parseDate(value[1])

\* array[index], undefined past the end
At(array, index) == IF index \in 1..Len(array) THEN Some(array[index]) ELSE None

\* the callback of lines 66-71 reads a property of undefined
elementThrows(daily) ==
    \/ daily.sunrise = None
    \/ daily.rain_sum = None
    \/ daily.et0_fao_evapotranspiration = None

\* the sunrise is read from the next position
toDailyWeather_NextSunrise(daily, index, now) ==
    [date                       |-> dayjs(At(daily.time[1], index), now),
     sunrise                    |-> dayjs(At(daily.sunrise[1], index + 1), now),
     rainfallMm                 |-> At(daily.rain_sum[1], index),
     evapotranspirationMmPerDay |-> At(daily.et0_fao_evapotranspiration[1], index)]

\* lines 66-71: the DailyWeather built for position index
toDailyWeather(daily, index, now) ==
    [date                       |-> dayjs(At(daily.time[1], index), now),
     sunrise                    |-> dayjs(At(daily.sunrise[1], index), now),
     rainfallMm                 |-> At(daily.rain_sum[1], index),
     evapotranspirationMmPerDay |-> At(daily.et0_fao_evapotranspiration[1], index)]

\* line 66: data.daily is undefined, data.daily.time is undefined, or the
\* callback throws for the first element
transformThrows(data) ==
    \/ data.daily = None
    \/ data.daily[1].time = None
    \/ (data.daily[1].time[1] # <<>> /\ elementThrows(data.daily[1]))

\* lines 66-71: data.daily.time.map(...)
transform(data, now) ==
    [index \in 1..Len(data.daily[1].time[1]) |-> toDailyWeather(data.daily[1], index, now)]

\* a date and a sunrise time of January 1970, as the API spells them
TwoDigits(n) == <<DigitChars[(n \div 10) + 1], DigitChars[(n % 10) + 1]>>

IsoDate(d) == <<"1", "9", "7", "0", "-", "0", "1", "-">> \o TwoDigits(d)

IsoSunrise(d) == IsoDate(d) \o <<"T", "0", "5", ":">> \o TwoDigits(40 + d)

\* the four parallel arrays of a response, each of them as long as it could
\* be; the second sunrise is not a date
TimeReadings == [i \in 1..MaxReadings |-> IsoDate(StartDate + i)]

SunriseReadings ==
    [i \in 1..MaxReadings |-> IF i = 2 THEN <<"s", "o", "o", "n">> ELSE IsoSunrise(StartDate + i)]

RainReadings == [i \in 1..MaxReadings |-> <<2 * i, 10>>]

ET0Readings == [i \in 1..MaxReadings |-> Hundredths(163 - i)]

\* an array of a response: missing, or the first n readings
Arrays(readings) == {None} \cup {Some(SubSeq(readings, 1, n)) : n \in 0..MaxReadings}

\* the bodies response.json() resolves with: no daily object, or a daily
\* object with each array missing, empty, or of any length up to MaxReadings
JsonBodies ==
    {[daily |-> None]} \cup
    { [daily |-> Some([time                       |-> t,
                       sunrise                    |-> s,
                       rain_sum                   |-> r,
                       et0_fao_evapotranspiration |-> e])] :
        t \in Arrays(TimeReadings), s \in Arrays(SunriseReadings),
        r \in Arrays(RainReadings), e \in Arrays(ET0Readings) }

\* what fetch resolves with: a failure status, a body that is not JSON, or
\* a JSON body
Responses ==
    { [ok |-> FALSE, status |-> st, json |-> None] : st \in {404, 500} }
        \cup {[ok |-> TRUE, status |-> 200, json |-> None]}
        \cup { [ok |-> TRUE, status |-> 200, json |-> Some(b)] : b \in JsonBodies }

NoWeatherCall ==
    [pc |-> "idle", forecastDays |-> None, now |-> 0, url |-> None,
     response |-> None, data |-> None, dailyData |-> None, error |-> None]

----------------------------------------------------------------------------
(* The state machine: one call of planZoneSchedule(zone, weatherHistory).  *)
(*                                                                         *)
(*   pc = "call"   the call has not started                                *)
(*   pc = "loop"   at the head of the for loop, dayIndex days consumed     *)
(*   pc = "check"  the day's depletion is advanced (line 49), the trigger  *)
(*                 of line 52 is not yet tested                            *)
(*   pc = "done"   the call has returned irrigationSchedule                *)
(*                                                                         *)
(* day holds the locals of the current loop iteration.  ledger is a        *)
(* history variable: what went into and out of the accumulator.  returned  *)
(* is a history variable too: the arguments and the result of every call   *)
(* that finished before the current one (empty while one call is looked    *)
(* at, under Spec).                                                        *)

NoDay ==
    [date |-> 0, sunrise |-> 0, cropEvapotranspiration |-> Zero,
     effectiveRainfallMillimeters |-> Zero, irrigated |-> FALSE,
     depletionBeforeIrrigation |-> Zero, grossIrrigationDepthMillimeters |-> Zero,
     totalRunTimeMinutes |-> Zero, maximumCycleMinutes |-> Zero]

NoLedger ==
    [initial |-> Zero, etc |-> Zero, rain |-> Zero, net |-> Zero,
     etcCounted |-> Zero, rainAbsorbed |-> Zero]

\* Of the rain r falling on a depletion base that the ET e raises: the part
\* that lowers the depletion (rain beyond a full soil runs off at 0).
rainAbsorbed(base, e, r) ==
    IF RLt(RSub(RAdd(base, e), r), Zero) THEN RAdd(base, e) ELSE r

\* Of the ET e on a depletion base: the part that raises the depletion (the
\* soil holds no less than the wilting point, TAW).
etcCounted(z, base, e, r) ==
    IF RGt(RSub(RAdd(base, e), r), totalAvailableWaterMillimeters(z))
    THEN RSub(e, RSub(RSub(RAdd(base, e), r), totalAvailableWaterMillimeters(z)))
    ELSE e

Init ==
    /\ zone \in Zones
    /\ weatherHistory \in WeatherHistories
    /\ pc = "call"
    /\ dayIndex = 0
    /\ currentDepletionMillimeters = Zero
    /\ irrigationSchedule = <<>>
    /\ day = NoDay
    /\ ledger = NoLedger
    /\ returned = <<>>
    /\ weatherCall = NoWeatherCall

\* line 13: return []
ReturnDisabled ==
    /\ pc = "call"
    /\ isDisabled(zone)
    /\ irrigationSchedule' = <<>>
    /\ pc' = "done"
    /\ UNCHANGED <<zone, weatherHistory, dayIndex, currentDepletionMillimeters,
                   day, ledger, returned>>
    /\ UNCHANGED weatherCall

\* lines 15-30
Begin ==
    /\ pc = "call"
    /\ ~isDisabled(zone)
    /\ currentDepletionMillimeters' = initialDepletionMillimeters(zone)
    /\ irrigationSchedule' = <<>>
    /\ ledger' = [NoLedger EXCEPT !.initial = initialDepletionMillimeters(zone)]
    /\ dayIndex' = 0
    /\ day' = NoDay
    /\ pc' = "loop"
    /\ UNCHANGED <<zone, weatherHistory, returned>>
    /\ UNCHANGED weatherCall

\* lines 33-49
AdvanceDepletion ==
    /\ pc = "loop"
    /\ dayIndex < Len(weatherHistory)
    /\ LET weatherDay == weatherHistory[dayIndex + 1]
           etc        == cropEvapotranspiration(zone, weatherDay)
           rain       == effectiveRainfallMillimeters(weatherDay)
           advanced   == advanceDepletion(zone, currentDepletionMillimeters, weatherDay)
       IN  /\ currentDepletionMillimeters' = advanced
           /\ day' = [NoDay EXCEPT !.date = weatherDay.date,
                                   !.sunrise = resolveSunrise(weatherDay),
                                   !.cropEvapotranspiration = etc,
                                   !.effectiveRainfallMillimeters = rain]
           /\ ledger' = [ledger EXCEPT
                  !.etc = RAdd(@, etc),
                  !.rain = RAdd(@, rain),
                  !.etcCounted =
                      RAdd(@, etcCounted(zone, currentDepletionMillimeters, etc, rain)),
                  !.rainAbsorbed =
                      RAdd(@, rainAbsorbed(currentDepletionMillimeters, etc, rain))]
    /\ pc' = "check"
    /\ UNCHANGED <<zone, weatherHistory, dayIndex, irrigationSchedule, returned>>
    /\ UNCHANGED weatherCall

\* lines 52-100 and 103
Irrigate ==
    /\ pc = "check"
    /\ irrigationNeeded(zone, currentDepletionMillimeters)
    /\ LET weatherDay == weatherHistory[dayIndex + 1]
           gross      == grossIrrigationDepthMillimeters(zone, currentDepletionMillimeters)
           runTime    == totalRunTimeMinutes(zone, gross)
           reapplied  == reapplyAfterIrrigation(zone, weatherDay)
           etc        == day.cropEvapotranspiration
           rain       == day.effectiveRainfallMillimeters
       IN  /\ irrigationSchedule' =
                  Append(irrigationSchedule,
                         scheduleEntry(zone, weatherDay, currentDepletionMillimeters))
           /\ currentDepletionMillimeters' = finalClamp(zone, reapplied)
           /\ day' = [day EXCEPT
                  !.irrigated = TRUE,
                  !.depletionBeforeIrrigation = currentDepletionMillimeters,
                  !.grossIrrigationDepthMillimeters = gross,
                  !.totalRunTimeMinutes = runTime,
                  !.maximumCycleMinutes = maximumCycleMinutes(zone, runTime)]
           /\ ledger' = [ledger EXCEPT
                  !.net = RAdd(@, RSub(currentDepletionMillimeters, depletionAfterIrrigation)),
                  !.etcCounted = RAdd(@, etcCounted(zone, Zero, etc, rain)),
                  !.rainAbsorbed = RAdd(@, rainAbsorbed(Zero, etc, rain))]
    /\ dayIndex' = dayIndex + 1
    /\ pc' = "loop"
    /\ UNCHANGED <<zone, weatherHistory, returned>>
    /\ UNCHANGED weatherCall

\* line 52 false, line 103
NoIrrigation ==
    /\ pc = "check"
    /\ ~irrigationNeeded(zone, currentDepletionMillimeters)
    /\ currentDepletionMillimeters' = finalClamp(zone, currentDepletionMillimeters)
    /\ dayIndex' = dayIndex + 1
    /\ pc' = "loop"
    /\ UNCHANGED <<zone, weatherHistory, irrigationSchedule, day, ledger, returned>>
    /\ UNCHANGED weatherCall

\* line 106
Return ==
    /\ pc = "loop"
    /\ dayIndex = Len(weatherHistory)
    /\ pc' = "done"
    /\ UNCHANGED <<zone, weatherHistory, dayIndex, currentDepletionMillimeters,
                   irrigationSchedule, day, ledger, returned>>
    /\ UNCHANGED weatherCall

Next ==
    \/ ReturnDisabled
    \/ Begin
    \/ AdvanceDepletion
    \/ Irrigate
    \/ NoIrrigation
    \/ Return

Spec == Init /\ [][Next]_vars

----------------------------------------------------------------------------
(* One call for each of a range of soils: the default zone on a soil whose *)
(* infiltration rate is on, just below or just above every boundary of     *)
(* estimateSoakMinutes, full or at 25 mm of depletion, enabled or not,     *)
(* with no weather or with the default day.                                *)

\* infiltration rates in tenths of a mm/hr
SoilRateTenths ==
    {0, 25, 30, 49, 50, 51, 65, 79, 80, 81, 100, 119, 120, 121, 160, 199, 200, 201,
     250, 500}

SoilZones ==
    { [TestZone EXCEPT !.soil.infiltrationRateMmPerHr = Tenths(k),
                       !.currentDepletionMm = d,
                       !.isEnabled = e] :
        k \in SoilRateTenths,
        d \in {Some(Zero), Some(Int2Rat(25))},
        e \in {Some(TRUE), Some(FALSE)} }

InitSoils ==
    /\ zone \in SoilZones
    /\ weatherHistory \in {h \in WeatherHistories :
                               /\ Len(h) <= 1
                               /\ \A n \in 1..Len(h) :
                                      /\ h[n].evapotranspirationMmPerDay = Some(Int2Rat(2))
                                      /\ h[n].rainfallMm = Some(Zero)}
    /\ pc = "call"
    /\ dayIndex = 0
    /\ currentDepletionMillimeters = Zero
    /\ irrigationSchedule = <<>>
    /\ day = NoDay
    /\ ledger = NoLedger
    /\ returned = <<>>
    /\ weatherCall = NoWeatherCall

SpecSoils == InitSoils /\ [][Next]_vars

----------------------------------------------------------------------------
(* One call over a dry period: every day has the same reference ET, 2 or   *)
(* 6 mm, and no rain or 1.99 mm of it, for up to MaxDryDays days.          *)

MaxDryDays == 7

\* the two kinds of day of a dry period with reference ET e
DryDayKinds(e) ==
    { [evapotranspirationMmPerDay |-> Some(Int2Rat(e)), rainfallMm |-> Some(r),
       clock |-> Some(<<6, 0>>)] : r \in {Zero, Hundredths(199)} }

DryHistories ==
    UNION { { [i \in 1..n |-> DailyWeather(ks[i], StartDate + i - 1)] :
                ks \in [1..n -> DryDayKinds(e)] } : n \in 0..MaxDryDays, e \in {2, 6} }

\* Kc 1 and RAW 18 mm: three days of 6 mm bring a full soil to RAW exactly
ExactTriggerZone ==
    [TestZone EXCEPT !.grassType = [cropCoefficient |-> Int2Rat(1)],
                     !.allowableDepletionFraction = Tenths(4)]

\* a full default zone (RAW 22.5), shallow sand full and at its full deficit
\* (RAW 5.625), a zone that needs water every day, one that reaches RAW
\* exactly, and a disabled one
DryZones ==
    {TestZone, ShallowSandZone, ThinZone, ExactTriggerZone,
     [ShallowSandZone EXCEPT !.currentDepletionMm = Some(Zero)]}
        \cup {z \in FlagZones : z.isEnabled = Some(FALSE)}

InitDry ==
    /\ zone \in DryZones
    /\ weatherHistory \in DryHistories
    /\ pc = "call"
    /\ dayIndex = 0
    /\ currentDepletionMillimeters = Zero
    /\ irrigationSchedule = <<>>
    /\ day = NoDay
    /\ ledger = NoLedger
    /\ returned = <<>>
    /\ weatherCall = NoWeatherCall

SpecDry == InitDry /\ [][Next]_vars

----------------------------------------------------------------------------
(* Several calls, one after the other.  planZoneSchedule is synchronous,   *)
(* so calls for different zones interleave as whole calls.  The locals of  *)
(* a call (its accumulator, its schedule, its loop position) are created   *)
(* by the call, in Begin and ReturnDisabled; between two calls they hold   *)
(* whatever the previous call left and nothing clears them.  returned      *)
(* keeps, for every finished call, its arguments and its result.           *)

\* how many calls are made
MaxCalls == 3

\* the zones the calls are made for: one that splits cycles on clay, one at
\* 25 mm of depletion, one that is disabled
CallZones ==
    {ClayZone, FullEfficiencyZone} \cup {z \in FlagZones : z.isEnabled = Some(FALSE)}

InitCalls ==
    /\ Init
    /\ zone \in CallZones

\* the caller takes the schedule of the call that finished and calls again,
\* for the same zone or another one, with the same weather
CallAgain ==
    /\ pc = "done"
    /\ Len(returned) < MaxCalls - 1
    /\ returned' = Append(returned, [zone           |-> zone,
                                     weatherHistory |-> weatherHistory,
                                     schedule       |-> irrigationSchedule])
    /\ zone' \in CallZones
    /\ pc' = "call"
    /\ UNCHANGED <<weatherHistory, dayIndex, currentDepletionMillimeters,
                   irrigationSchedule, day, ledger>>
    /\ UNCHANGED weatherCall

NextCalls ==
    \/ ReturnDisabled
    \/ Begin
    \/ AdvanceDepletion
    \/ Irrigate
    \/ NoIrrigation
    \/ Return
    \/ CallAgain

SpecCalls == InitCalls /\ [][NextCalls]_vars

-----------------------------------------------------------------------------
(* Two calls for two variants of one zone, with the same weather: the      *)
(* second zone differs from the first in the allowable depletion fraction  *)
(* only, or only in the fields that say how the water is delivered.        *)

\* irrigation efficiency, flow, area, explicit rate and infiltration rate:
\* the default; 60 % and 100 % efficient; the rate derived from a low flow
\* (3 mm/hr); a fast sprinkler on slow soil (20 over 8 mm/hr); and a sealed
\* soil under a rate derived from a small area (18 mm/hr) at 60 %
Deliveries ==
    { [irrigationEfficiency |-> Tenths(8), flowRateLPerMin |-> Int2Rat(15),
       areaM2 |-> Int2Rat(100), precipitationRateMmPerHr |-> Some(Int2Rat(9)),
       infiltrationRateMmPerHr |-> Int2Rat(25)],
      [irrigationEfficiency |-> Tenths(6), flowRateLPerMin |-> Int2Rat(15),
       areaM2 |-> Int2Rat(100), precipitationRateMmPerHr |-> Some(Int2Rat(9)),
       infiltrationRateMmPerHr |-> Int2Rat(25)],
      [irrigationEfficiency |-> Int2Rat(1), flowRateLPerMin |-> Int2Rat(15),
       areaM2 |-> Int2Rat(100), precipitationRateMmPerHr |-> Some(Int2Rat(9)),
       infiltrationRateMmPerHr |-> Int2Rat(25)],
      [irrigationEfficiency |-> Tenths(8), flowRateLPerMin |-> Int2Rat(5),
       areaM2 |-> Int2Rat(100), precipitationRateMmPerHr |-> None,
       infiltrationRateMmPerHr |-> Int2Rat(25)],
      [irrigationEfficiency |-> Tenths(8), flowRateLPerMin |-> Int2Rat(15),
       areaM2 |-> Int2Rat(100), precipitationRateMmPerHr |-> Some(Int2Rat(20)),
       infiltrationRateMmPerHr |-> Int2Rat(8)],
      [irrigationEfficiency |-> Tenths(6), flowRateLPerMin |-> Int2Rat(15),
       areaM2 |-> Int2Rat(50), precipitationRateMmPerHr |-> None,
       infiltrationRateMmPerHr |-> Zero] }

\* the zone z with the delivery d
Delivered(z, d) ==
    [z EXCEPT !.irrigationEfficiency     = d.irrigationEfficiency,
              !.flowRateLPerMin          = d.flowRateLPerMin,
              !.areaM2                   = d.areaM2,
              !.precipitationRateMmPerHr = d.precipitationRateMmPerHr,
              !.soil = [z.soil EXCEPT !.infiltrationRateMmPerHr = d.infiltrationRateMmPerHr]]

\* conservative, standard and aggressive management
DepletionFractions == {Tenths(3), Tenths(5), Tenths(7)}

\* a soil that starts full, ones that start 10 and 20 mm down, a disabled zone
VariantBases ==
    { [TestZone EXCEPT !.currentDepletionMm = Some(Int2Rat(mm))] : mm \in {0, 10, 20} }
        \cup {z \in FlagZones : z.isEnabled = Some(FALSE)}

VariantZones ==
    { [Delivered(b, d) EXCEPT !.allowableDepletionFraction = a] :
        b \in VariantBases, d \in Deliveries, a \in DepletionFractions }

\* z1 and z2 are identical except, at most, in the irrigation efficiency
SameButEfficiency(z1, z2) ==
    [z1 EXCEPT !.irrigationEfficiency = z2.irrigationEfficiency] = z2

\* ... in the allowable depletion fraction
SameButDepletionFraction(z1, z2) ==
    [z1 EXCEPT !.allowableDepletionFraction = z2.allowableDepletionFraction] = z2

\* ... in efficiency, flow, area, explicit rate and infiltration rate
SameButDelivery(z1, z2) ==
    Delivered(z1, [irrigationEfficiency     |-> z2.irrigationEfficiency,
                   flowRateLPerMin          |-> z2.flowRateLPerMin,
                   areaM2                   |-> z2.areaM2,
                   precipitationRateMmPerHr |-> z2.precipitationRateMmPerHr,
                   infiltrationRateMmPerHr  |-> z2.soil.infiltrationRateMmPerHr]) = z2

\* dry days of 6 mm and of the default 2 mm, and days of heavy rain
VariantDayKinds ==
    { [evapotranspirationMmPerDay |-> Some(Int2Rat(6)), rainfallMm |-> Some(Zero),
       clock |-> Some(<<6, 0>>)],
      [evapotranspirationMmPerDay |-> Some(Int2Rat(2)), rainfallMm |-> Some(Zero),
       clock |-> Some(<<6, 0>>)],
      [evapotranspirationMmPerDay |-> Some(Int2Rat(2)), rainfallMm |-> Some(Int2Rat(15)),
       clock |-> Some(<<6, 0>>)] }

VariantHistories ==
    UNION { { [i \in 1..n |-> DailyWeather(ks[i], StartDate + i - 1)] :
                ks \in [1..n -> VariantDayKinds] } : n \in 0..MaxDays }

InitVariants ==
    /\ zone \in VariantZones
    /\ weatherHistory \in VariantHistories
    /\ pc = "call"
    /\ dayIndex = 0
    /\ currentDepletionMillimeters = Zero
    /\ irrigationSchedule = <<>>
    /\ day = NoDay
    /\ ledger = NoLedger
    /\ returned = <<>>
    /\ weatherCall = NoWeatherCall

\* the caller keeps the schedule of the first zone and plans a variant of it
CallVariant ==
    /\ pc = "done"
    /\ returned = <<>>
    /\ returned' = <<[zone           |-> zone,
                      weatherHistory |-> weatherHistory,
                      schedule       |-> irrigationSchedule]>>
    /\ zone' \in {v \in VariantZones :
                     SameButDelivery(zone, v) \/ SameButDepletionFraction(zone, v)}
    /\ pc' = "call"
    /\ UNCHANGED <<weatherHistory, dayIndex, currentDepletionMillimeters,
                   irrigationSchedule, day, ledger>>
    /\ UNCHANGED weatherCall

NextVariants ==
    \/ ReturnDisabled
    \/ Begin
    \/ AdvanceDepletion
    \/ Irrigate
    \/ NoIrrigation
    \/ Return
    \/ CallVariant

SpecVariants == InitVariants /\ [][NextVariants]_vars

-----------------------------------------------------------------------------
(* One call of getWeatherData(params).                                     *)
(*                                                                         *)
(*   weatherCall.pc = "start"      the call has not started                *)
(*                    "fetching"   awaiting fetch (line 56)                *)
(*                    "responded"  fetch has resolved with a response      *)
(*                    "parsed"     response.json() has resolved (line 63)  *)
(*                    "returned"   the promise is fulfilled with dailyData *)
(*                    "rejected"   the promise is rejected with error      *)
(*                                                                         *)
(* The latitude and the longitude only go into the URL and are left out.   *)

plannerVars == <<zone, weatherHistory, pc, dayIndex, currentDepletionMillimeters,
                 irrigationSchedule, day, ledger, returned>>

InitWeather ==
    /\ zone = TestZone
    /\ weatherHistory = <<>>
    /\ pc = "call"
    /\ dayIndex = 0
    /\ currentDepletionMillimeters = Zero
    /\ irrigationSchedule = <<>>
    /\ day = NoDay
    /\ ledger = NoLedger
    /\ returned = <<>>
    /\ \E days \in {None, Some(1), Some(MaxReadings)},
          now \in {AtClock(StartDate, 12, 0), AtClock(StartDate + 1, 7, 30)} :
           weatherCall = [NoWeatherCall EXCEPT !.pc = "start", !.forecastDays = days,
                                               !.now = now]

\* lines 46-56: the URL is built and fetch is called
CallFetch ==
    /\ weatherCall.pc = "start"
    /\ weatherCall' = [weatherCall EXCEPT
           !.url = Some([daily         |-> "sunrise,rain_sum,et0_fao_evapotranspiration",
                         forecast_days |-> Nullish(weatherCall.forecastDays, 7)]),
           !.pc  = "fetching"]
    /\ UNCHANGED plannerVars

\* line 56: the promise of fetch rejects, and so does the call
FetchRejects ==
    /\ weatherCall.pc = "fetching"
    /\ weatherCall' = [weatherCall EXCEPT !.error = Some("Network error"),
                                          !.pc    = "rejected"]
    /\ UNCHANGED plannerVars

\* line 56: fetch resolves
FetchResolves ==
    /\ weatherCall.pc = "fetching"
    /\ \E response \in Responses :
           weatherCall' = [weatherCall EXCEPT !.response = Some(response),
                                              !.pc       = "responded"]
    /\ UNCHANGED plannerVars

\* lines 58-60
ThrowNotOk ==
    /\ weatherCall.pc = "responded"
    /\ ~weatherCall.response[1].ok
    /\ weatherCall' = [weatherCall EXCEPT
           !.error = Some("Open-Meteo API request failed"),
           !.pc    = "rejected"]
    /\ UNCHANGED plannerVars

\* line 63: response.json() rejects, and so does the call
JsonRejects ==
    /\ weatherCall.pc = "responded"
    /\ weatherCall.response[1].ok
    /\ weatherCall.response[1].json = None
    /\ weatherCall' = [weatherCall EXCEPT !.error = Some("SyntaxError"),
                                          !.pc    = "rejected"]
    /\ UNCHANGED plannerVars

\* line 63: response.json() resolves
JsonResolves ==
    /\ weatherCall.pc = "responded"
    /\ weatherCall.response[1].ok
    /\ weatherCall.response[1].json # None
    /\ weatherCall' = [weatherCall EXCEPT !.data = weatherCall.response[1].json,
                                          !.pc   = "parsed"]
    /\ UNCHANGED plannerVars

\* lines 66-73
Transform ==
    /\ weatherCall.pc = "parsed"
    /\ weatherCall' =
           IF transformThrows(weatherCall.data[1])
           THEN [weatherCall EXCEPT !.error = Some("TypeError"), !.pc = "rejected"]
           ELSE [weatherCall EXCEPT
                    !.dailyData = Some(transform(weatherCall.data[1], weatherCall.now)),
                    !.pc        = "returned"]
    /\ UNCHANGED plannerVars

NextWeather ==
    \/ CallFetch
    \/ FetchRejects
    \/ FetchResolves
    \/ ThrowNotOk
    \/ JsonRejects
    \/ JsonResolves
    \/ Transform

SpecWeather == InitWeather /\ [][NextWeather]_vars

----------------------------------------------------------------------------
(* Notions the properties share.                                           *)

TAW == totalAvailableWaterMillimeters(zone)

RAW == readilyAvailableWaterMillimeters(zone)

Within(x, lo, hi) == RLeq(lo, x) /\ RLeq(x, hi)

Entries == {irrigationSchedule[k] : k \in 1..Len(irrigationSchedule)}

Last(s) == s[Len(s)]

\* the step that tests the trigger of line 52 pushes an entry
Pushes == pc = "check" /\ Len(irrigationSchedule') = Len(irrigationSchedule) + 1

\* the call has started and an irrigation day was just completed
JustIrrigated == pc = "loop" /\ day.irrigated

\* the weather record of the day being processed, while pc = "check"
Today == weatherHistory[dayIndex + 1]

----------------------------------------------------------------------------
----------------------------------------------------------------------------
(* C2: a day produces an entry if and only if the depletion after the      *)
(* day's advance, clamp(D + Kc * max(0, ET0) - effective rain, 0, TAW), is *)
(* at least RAW (equal to RAW triggers, below RAW does not), and the       *)
(* entry's depletionBeforeMm is that depletion rounded to one decimal.     *)
C2_Advanced(depletion, weatherDay) ==
    LET etc  == RMul(zone.grassType.cropCoefficient,
                     MathMax(Zero, Nullish(weatherDay.evapotranspirationMmPerDay, Zero)))
        rain == Nullish(weatherDay.rainfallMm, Zero)
        sum  == IF RLt(rain, Int2Rat(2)) THEN RAdd(depletion, etc)
                ELSE RSub(RAdd(depletion, etc), RMul(Rat(4, 5), rain))
    IN  IF RLt(sum, Zero) THEN Zero ELSE IF RGt(sum, TAW) THEN TAW ELSE sum

C2_EntryIffAtLeastRAW ==
    [][ /\ (pc = "loop" /\ pc' = "check") =>
              currentDepletionMillimeters' =
                  C2_Advanced(currentDepletionMillimeters, Today)
        /\ pc = "check" =>
              /\ Pushes <=> RLeq(RAW, currentDepletionMillimeters)
              /\ Pushes => /\ Last(irrigationSchedule').depletionBeforeMm =
                                 roundTo1Decimal(currentDepletionMillimeters)
                           /\ Last(irrigationSchedule').date = Today.date
              /\ ~Pushes => irrigationSchedule' = irrigationSchedule
      ]_vars

\* an irrigation triggered by a depletion of exactly RAW
C2_Witness ==
    /\ JustIrrigated
    /\ day.depletionBeforeIrrigation = RAW
    /\ Last(irrigationSchedule).depletionBeforeMm = roundTo1Decimal(RAW)

----------------------------------------------------------------------------
(* C3: every entry reports depletionAfterMm = 0, and the irrigation resets *)
(* the running depletion to 0 before the day's ET and rainfall are applied *)
(* again, also when the gross depth was capped at TAW.                     *)
C3_ResetToZero ==
    /\ [](\A e \in Entries : e.depletionAfterMm = Zero)
    /\ [][ Pushes =>
             currentDepletionMillimeters' = C2_Advanced(Zero, Today) ]_vars

\* an irrigation whose gross depth was capped: D / efficiency exceeds TAW
C3_Witness ==
    /\ JustIrrigated
    /\ day.grossIrrigationDepthMillimeters = TAW
    /\ RGt(RDiv(day.depletionBeforeIrrigation, zone.irrigationEfficiency), TAW)
    /\ Last(irrigationSchedule).depletionAfterMm = Zero

----------------------------------------------------------------------------
(* C4: a zone whose isEnabled is explicitly false gets an empty schedule   *)
(* whatever the weather and the other settings, without a day being        *)
(* processed; an absent or true flag runs the per-day algorithm over every *)
(* day.                                                                    *)
C4_DisabledZoneEmpty ==
    /\ zone.isEnabled = Some(FALSE) =>
          /\ irrigationSchedule = <<>>
          /\ dayIndex = 0
          /\ pc \in {"call", "done"}
    /\ (zone.isEnabled # Some(FALSE) /\ pc = "done") =>
          dayIndex = Len(weatherHistory)

\* a disabled zone has returned, on weather whose first day would irrigate
C4_Witness ==
    /\ zone.isEnabled = Some(FALSE)
    /\ pc = "done"
    /\ weatherHistory # <<>>
    /\ RLeq(RAW, C2_Advanced(initialDepletionMillimeters(zone), weatherHistory[1]))

----------------------------------------------------------------------------
(* C5: for every entry and every cycle of it, the start time plus the      *)
(* reported durationMin minutes is no later than the sunrise of the        *)
(* entry's day (the day's sunrise field, or 06:00 on its date).            *)
SunriseOfDate(date) ==
    LET weatherDay == CHOOSE w \in {weatherHistory[i] : i \in 1..Len(weatherHistory)} :
                          w.date = date
    IN  Nullish(weatherDay.sunrise, AtClock(date, 6, 0))

C5_CyclesEndBySunrise ==
    \A e \in Entries : \A k \in 1..Len(e.cycles) :
        AddMinutes(e.cycles[k].startTime, e.cycles[k].durationMin) <= SunriseOfDate(e.date)

----------------------------------------------------------------------------
(* C6: the dates of the entries are a subsequence of the dates of the      *)
(* weather, in the same order and without a duplicate; a day gives at most *)
(* one entry, pushed at the end and dated with that day; entries are never *)
(* removed or reordered; every entry carries the zone's id; the schedule   *)
(* is no longer than the days consumed, so empty weather gives an empty    *)
(* schedule.                                                               *)
IsDateSubsequence(entries, weather) ==
    \E f \in [1..Len(entries) -> 1..Len(weather)] :
        /\ \A k \in 1..Len(entries) : weather[f[k]].date = entries[k].date
        /\ \A j, k \in 1..Len(entries) : j < k => f[j] < f[k]

C6_DatesSubsequence ==
    /\ [] /\ IsDateSubsequence(irrigationSchedule, SubSeq(weatherHistory, 1, dayIndex))
          /\ \A j, k \in 1..Len(irrigationSchedule) :
                j # k => irrigationSchedule[j].date # irrigationSchedule[k].date
          /\ \A e \in Entries : e.zoneId = zone.id
          /\ Len(irrigationSchedule) <= dayIndex
          /\ dayIndex <= Len(weatherHistory)
    /\ [][ \/ irrigationSchedule' = irrigationSchedule
           \/ /\ Pushes
              /\ SubSeq(irrigationSchedule', 1, Len(irrigationSchedule)) = irrigationSchedule
              /\ Last(irrigationSchedule').date = Today.date
              /\ dayIndex' = dayIndex + 1 ]_vars

\* three days, the first without an entry, the second and the third with one
C6_Witness ==
    /\ pc = "done"
    /\ Len(weatherHistory) = 3
    /\ Len(irrigationSchedule) = 2
    /\ irrigationSchedule[1].date = weatherHistory[2].date
    /\ irrigationSchedule[2].date = weatherHistory[3].date

----------------------------------------------------------------------------
(* C7: every entry reports appliedDepthMm > 0.                             *)
C7_AppliedDepthPositive ==
    \A e \in Entries : RGt(e.appliedDepthMm, Zero)

----------------------------------------------------------------------------
(* C8: every entry has a non-empty cycle list, and every cycle reports a   *)
(* durationMin that is strictly positive.                                  *)
C8_CyclesNonEmptyAndPositive ==
    \A e \in Entries :
        /\ e.cycles # <<>>
        /\ \A k \in 1..Len(e.cycles) : RGt(e.cycles[k].durationMin, Zero)

----------------------------------------------------------------------------
(* C9 as stated: the gross depth of an irrigation is min(D / efficiency,   *)
(* TAW) for the depletion D that triggered it, and no entry reports an     *)
(* appliedDepthMm above TAW.                                               *)
C9_GrossIsCappedQuotient ==
    Pushes =>
        LET quotient == RMul(currentDepletionMillimeters,
                             <<zone.irrigationEfficiency[2], zone.irrigationEfficiency[1]>>)
            gross    == IF RLeq(quotient, TAW) THEN quotient ELSE TAW
        IN  /\ day'.grossIrrigationDepthMillimeters = gross
            /\ Last(irrigationSchedule').appliedDepthMm = roundTo1Decimal(gross)

C9_ReportedAppliedDepthAtMostTAW ==
    /\ [][C9_GrossIsCappedQuotient]_vars
    /\ [](\A e \in Entries : RLeq(e.appliedDepthMm, TAW))

(* C9 as amended: the gross depth of an irrigation is min(D / efficiency,  *)
(* TAW), so it never exceeds TAW whatever the efficiency; an entry reports *)
(* it rounded to one decimal, so appliedDepthMm never exceeds              *)
(* roundTo1Decimal(TAW).                                                   *)
C9_AppliedDepthAtMostTAW ==
    /\ [][C9_GrossIsCappedQuotient]_vars
    /\ [](day.irrigated => RLeq(day.grossIrrigationDepthMillimeters, TAW))
    /\ [](\A e \in Entries : RLeq(e.appliedDepthMm, roundTo1Decimal(TAW)))

\* an irrigation at low efficiency whose gross depth is the cap, not D / efficiency
C9_Witness ==
    /\ JustIrrigated
    /\ RLt(zone.irrigationEfficiency, Int2Rat(1))
    /\ RLt(day.depletionBeforeIrrigation, TAW)
    /\ RGt(RDiv(day.depletionBeforeIrrigation, zone.irrigationEfficiency), TAW)
    /\ Last(irrigationSchedule).appliedDepthMm = roundTo1Decimal(TAW)

----------------------------------------------------------------------------
(* C10 as stated: when the call returns, the net water applied by the      *)
(* entries (depletion before minus depletion after) plus the rainfall      *)
(* absorbed equals the daily ETc summed plus the final-minus-initial       *)
(* depletion.                                                              *)
C10_MassBalanceAsStated ==
    (pc = "done" /\ ~isDisabled(zone)) =>
        RAdd(ledger.net, ledger.rain) =
            RAdd(ledger.etc, RSub(currentDepletionMillimeters, ledger.initial))

(* C10 as amended: at every loop head and at the return, the net water     *)
(* applied plus the rainfall absorbed equals the ETc counted plus the      *)
(* initial-minus-final depletion, where the ETc and the effective rainfall *)
(* of an irrigation day count twice (they are applied before the           *)
(* irrigation and again after the reset), the rainfall absorbed leaves out *)
(* what the clamp at 0 discards and the ETc counted leaves out what the    *)
(* clamp at TAW discards.                                                  *)
C10_MassBalance ==
    (pc \in {"loop", "done"} /\ ~isDisabled(zone)) =>
        RAdd(ledger.net, ledger.rainAbsorbed) =
            RAdd(ledger.etcCounted, RSub(ledger.initial, currentDepletionMillimeters))

\* a returned call with an irrigation, absorbed rain and rain the clamp discarded
C10_Witness ==
    /\ pc = "done"
    /\ irrigationSchedule # <<>>
    /\ RGt(ledger.rainAbsorbed, Zero)
    /\ RLt(ledger.rainAbsorbed, ledger.rain)
    /\ RGt(ledger.etcCounted, ledger.etc)

----------------------------------------------------------------------------
(* C11.  Effective rainfall.                                               *)

\* the day's rainfall, absent counting as none
RainOf(weatherDay) == Nullish(weatherDay.rainfallMm, Zero)

\* the day's effective rainfall as the specification words it
EffectiveRainOf(weatherDay) ==
    IF RLt(RainOf(weatherDay), Int2Rat(2)) THEN Zero
    ELSE RMul(Rat(4, 5), RainOf(weatherDay))

\* the day's crop ET as the specification words it: Kc times the reference
\* ET, absent or negative counting as 0
CropETOf(weatherDay) ==
    LET et0 == Nullish(weatherDay.evapotranspirationMmPerDay, Zero)
    IN  RMul(zone.grassType.cropCoefficient, IF RLt(et0, Zero) THEN Zero ELSE et0)

\* C11: the effective rainfall the planner uses for a day is 0 when the
\* day's rainfall is below 2 mm (absent rainfall included) and 0.8 times the
\* rainfall when it is 2 mm or more: 1.99 mm gives 0 and 2.00 mm gives
\* 1.60 mm; that is the amount the day's advance takes off the depletion.
C11_EffectiveRainfall ==
    [][pc = "loop" /\ pc' = "check" =>
         /\ day'.effectiveRainfallMillimeters = EffectiveRainOf(Today)
         /\ (Today.rainfallMm = None => day'.effectiveRainfallMillimeters = Zero)
         /\ (Today.rainfallMm = Some(Hundredths(199))
                => day'.effectiveRainfallMillimeters = Zero)
         /\ (Today.rainfallMm = Some(Int2Rat(2))
                => day'.effectiveRainfallMillimeters = Hundredths(160))
         /\ currentDepletionMillimeters'
              = clampValue(RSub(RAdd(currentDepletionMillimeters,
                                     day'.cropEvapotranspiration),
                                EffectiveRainOf(Today)),
                           Zero, TAW)]_vars

\* a day with exactly 2.00 mm of rain has been advanced with 1.60 mm
C11_Witness ==
    /\ pc = "check"
    /\ Today.rainfallMm = Some(Int2Rat(2))
    /\ day.effectiveRainfallMillimeters = Rat(8, 5)

----------------------------------------------------------------------------
(* C12.  The day's ET and rainfall are applied again after an irrigation.  *)

\* C12: on a day that irrigates, the depletion carried into the next day is
\* clamp(ETc - effRain, 0, TAW) of that day, whatever the depletion was
\* before the irrigation; on a day that does not irrigate the day's ET and
\* rainfall are applied once, by the advance, and the depletion is carried
\* as it is.
C12_ReappliedAfterIrrigation ==
    [][/\ Pushes =>
            currentDepletionMillimeters'
              = clampValue(RSub(CropETOf(Today), EffectiveRainOf(Today)), Zero, TAW)
       /\ (pc = "check" /\ ~Pushes) =>
            currentDepletionMillimeters' = currentDepletionMillimeters
       /\ (pc = "loop" /\ pc' = "check") =>
            currentDepletionMillimeters'
              = clampValue(RSub(RAdd(currentDepletionMillimeters, CropETOf(Today)),
                                EffectiveRainOf(Today)),
                           Zero, TAW)]_vars

\* an irrigation on a day with effective rain: the depletion carried on is
\* neither 0 nor what it was before the irrigation
C12_Witness ==
    /\ JustIrrigated
    /\ day.effectiveRainfallMillimeters # Zero
    /\ currentDepletionMillimeters # Zero
    /\ currentDepletionMillimeters # day.depletionBeforeIrrigation

----------------------------------------------------------------------------
(* The cycle planner as the specification words it, for C13 to C16.        *)

\* the precipitation rate R: the explicit one, else 60 * flow / area
RateOf ==
    Nullish(zone.precipitationRateMmPerHr,
            RMul(Int2Rat(60), RDiv(zone.flowRateLPerMin, zone.areaM2)))

\* the total runtime T = (gross / R) * 60 of the irrigation just planned
RunTimeT == RMul(RDiv(day.grossIrrigationDepthMillimeters, RateOf), Int2Rat(60))

InfiltrationOf == zone.soil.infiltrationRateMmPerHr

\* the maximum cycle M = (infiltration / R) * 60
MaxCycleM == RMul(RDiv(InfiltrationOf, RateOf), Int2Rat(60))

\* the cycles of the entry just pushed
CyclesPlanned == Last(irrigationSchedule).cycles

\* the runtime is split: positive infiltration and T above M
IsSplit == InfiltrationOf # Zero /\ ~RLeq(RunTimeT, MaxCycleM)

\* the number of cycles N = ceil(T / M) of a split runtime
CountN == MathCeil(RDiv(RunTimeT, MaxCycleM))

----------------------------------------------------------------------------
(* C13.  The cycle count rule.                                             *)

\* C13 as stated: the entry has one cycle whose duration is T when the
\* infiltration rate is 0 or T <= M, and otherwise N = ceil(T / M) >= 2 cycles
\* whose durations are all T / N.
C13_CyclesOfDurationT ==
    JustIrrigated =>
        IF IsSplit
        THEN /\ CountN >= 2
             /\ Len(CyclesPlanned) = CountN
             /\ \A k \in 1..Len(CyclesPlanned) :
                    CyclesPlanned[k].durationMin = RDiv(RunTimeT, Int2Rat(CountN))
        ELSE /\ Len(CyclesPlanned) = 1
             /\ CyclesPlanned[1].durationMin = RunTimeT

\* C13: the entry has one cycle when the infiltration rate is 0 or T <= M
\* (T = M included), and otherwise N = ceil(T / M) >= 2 cycles; the one cycle
\* is reported with the duration T rounded to one decimal and the N cycles
\* all with the same duration, T / N rounded to one decimal.
C13_CycleCountRule ==
    JustIrrigated =>
        IF IsSplit
        THEN /\ CountN >= 2
             /\ Len(CyclesPlanned) = CountN
             /\ \A k \in 1..Len(CyclesPlanned) :
                    CyclesPlanned[k].durationMin
                      = roundTo1Decimal(RDiv(RunTimeT, Int2Rat(CountN)))
        ELSE /\ Len(CyclesPlanned) = 1
             /\ CyclesPlanned[1].durationMin = roundTo1Decimal(RunTimeT)

\* a runtime exactly equal to the maximum cycle went out as one cycle
C13_Witness ==
    /\ JustIrrigated
    /\ InfiltrationOf # Zero
    /\ RunTimeT = MaxCycleM
    /\ Len(CyclesPlanned) = 1

----------------------------------------------------------------------------
(* C14.  The cycles total the runtime.                                     *)

\* the sum of the reported durations of a list of cycles
RECURSIVE SumOfDurations(_)
SumOfDurations(cycles) ==
    IF cycles = <<>> THEN Zero
    ELSE RAdd(cycles[1].durationMin, SumOfDurations(Tail(cycles)))

\* |a - b|
Distance(a, b) == IF RLeq(a, b) THEN RSub(b, a) ELSE RSub(a, b)

\* C14 as stated: the durations of the cycles of an entry add up to
\* T = (gross depth / precipitation rate) * 60.
C14_DurationsSumToT ==
    JustIrrigated => SumOfDurations(CyclesPlanned) = RunTimeT

\* C14: the reported durations of the cycles of an entry add up to T to
\* within 0.05 min per cycle, the rounding of each duration to one decimal,
\* and to T exactly when the duration of one cycle, T / N, is a multiple of
\* 0.1 min.
C14_DurationsSumNearT ==
    (JustIrrigated /\ IsFinite(RunTimeT)) =>
        LET count == Len(CyclesPlanned)
            each  == RDiv(RunTimeT, Int2Rat(count))
        IN  /\ count >= 1
            /\ RLeq(Distance(SumOfDurations(CyclesPlanned), RunTimeT), Rat(count, 20))
            /\ (roundTo1Decimal(each) = each
                  => SumOfDurations(CyclesPlanned) = RunTimeT)

\* a split runtime whose reported durations do not add up to T
C14_Witness ==
    /\ JustIrrigated
    /\ Len(CyclesPlanned) >= 2
    /\ IsFinite(RunTimeT)
    /\ SumOfDurations(CyclesPlanned) # RunTimeT

----------------------------------------------------------------------------
(* C15.  The timing layout of the cycles.                                  *)

\* the soak K between two cycles
SoakK == soakTimeMinutes(zone)

\* the unrounded duration d of one cycle of the entry just pushed
EachD == RDiv(RunTimeT, Int2Rat(Len(CyclesPlanned)))

\* cycle i of the entry just pushed, counted from the latest (i = 1)
CycleFromLatest(i) == CyclesPlanned[Len(CyclesPlanned) + 1 - i]

\* i * d + (i - 1) * K minutes: how long before sunrise cycle i starts
StartOffset(i) == RAdd(RMul(Int2Rat(i), EachD), RMul(Int2Rat(i - 1), SoakK))

\* C15: the cycles are listed earliest first and laid out backward from the
\* sunrise S of the day: counted from the latest, cycle i starts at the
\* instant S - (i * d + (i - 1) * K) for the unrounded duration d, so that it
\* ends at S - (i - 1) * (d + K); the latest cycle ends at S, two consecutive
\* cycles are K minutes of soak apart, and the first cycle starts at
\* S - (T + (N - 1) * K), every offset being computed from the unrounded d.
\* Instants are whole milliseconds: a start is the stated instant with the
\* fraction of a millisecond dropped.
C15_TimingLayout ==
    (JustIrrigated /\ IsFinite(RunTimeT)) =>
        LET count == Len(CyclesPlanned)
        IN  /\ \A i \in 1..count :
                  CycleFromLatest(i).startTime = SubtractMinutes(day.sunrise, StartOffset(i))
            /\ \A k \in 1..(count - 1) :
                  CyclesPlanned[k].startTime < CyclesPlanned[k + 1].startTime
            /\ day.sunrise - CycleFromLatest(1).startTime = CeilTimes(EachD, MsPerMinute)
            /\ \A i \in 2..count :
                  LET apart == CycleFromLatest(i - 1).startTime - CycleFromLatest(i).startTime
                      exact == RMul(RAdd(EachD, SoakK), Int2Rat(MsPerMinute))
                  IN  MathFloor(exact) <= apart /\ apart <= MathCeil(exact)
            /\ CyclesPlanned[1].startTime
                 = SubtractMinutes(day.sunrise,
                                   RAdd(RunTimeT, RMul(Int2Rat(count - 1), SoakK)))

\* three or more cycles whose duration is not a whole number of milliseconds
\* and is reported rounded
C15_Witness ==
    /\ JustIrrigated
    /\ IsFinite(RunTimeT)
    /\ Len(CyclesPlanned) >= 3
    /\ roundTo1Decimal(EachD) # EachD
    /\ Int2Rat(CeilTimes(EachD, MsPerMinute)) # RMul(EachD, Int2Rat(MsPerMinute))

----------------------------------------------------------------------------
(* C16.  No cycle is longer than the infiltration allows.                  *)

\* C16: when the soil infiltration is positive every cycle of the entry has
\* durationMin <= M = (infiltration / precipitation rate) * 60, and whenever
\* the total runtime T exceeds M the entry has more than one cycle.
C16_CyclesWithinMaximum ==
    (JustIrrigated /\ RGt(InfiltrationOf, Zero)) =>
        /\ \A k \in 1..Len(CyclesPlanned) :
               RLeq(CyclesPlanned[k].durationMin, MaxCycleM)
        /\ (RGt(RunTimeT, MaxCycleM) => Len(CyclesPlanned) > 1)

----------------------------------------------------------------------------
(* C17.  The initial depletion.                                            *)

\* clamp(zone.currentDepletionMm ?? 0, 0, TAW), spelled out
InitialDepletionOf ==
    LET given == Nullish(zone.currentDepletionMm, Zero)
    IN  IF zone.currentDepletionMm = None \/ RLt(given, Zero) THEN Zero
        ELSE IF RGt(given, TAW) THEN TAW
        ELSE given

\* the step that pushes the first entry of the schedule
PushesFirst == Pushes /\ irrigationSchedule = <<>>

----------------------------------------------------------------------------
(* C18.  Incomplete days.                                                  *)

\* 06:00:00 on the calendar day of a weather record
SixOClock(weatherDay) == weatherDay.date * MsPerDay + 6 * 60 * MsPerMinute

\* C18: a day is processed whatever it leaves out.  An absent or negative
\* reference ET gives a crop ET of 0, and the crop ET is never negative, so it
\* never lowers the depletion; absent rainfall gives no effective rain; an
\* absent sunrise makes the cycles end at 06:00:00 on the day's date; and a
\* day with zero ET and rainfall below 2 mm leaves the depletion unchanged.
C18_IncompleteDays ==
    [][/\ (pc = "loop" /\ pc' = "check") =>
            /\ (Today.evapotranspirationMmPerDay = None
                  => day'.cropEvapotranspiration = Zero)
            /\ (/\ Today.evapotranspirationMmPerDay # None
                /\ RLt(Nullish(Today.evapotranspirationMmPerDay, Zero), Zero))
                  => day'.cropEvapotranspiration = Zero
            /\ RGeq(day'.cropEvapotranspiration, Zero)
            /\ (Today.rainfallMm = None => day'.effectiveRainfallMillimeters = Zero)
            /\ (day'.effectiveRainfallMillimeters = Zero
                  => RGeq(currentDepletionMillimeters', currentDepletionMillimeters))
            /\ (Today.sunrise = None => day'.sunrise = SixOClock(Today))
            /\ (CropETOf(Today) = Zero /\ RLt(RainOf(Today), Int2Rat(2)))
                  => currentDepletionMillimeters' = currentDepletionMillimeters
       /\ (Pushes /\ Today.sunrise = None /\ IsFinite(RateOf) /\ RateOf # Zero) =>
            LET cycles == irrigationSchedule'[Len(irrigationSchedule')].cycles
                each   == RDiv(RMul(RDiv(day'.grossIrrigationDepthMillimeters, RateOf),
                                    Int2Rat(60)),
                               Int2Rat(Len(cycles)))
            IN  cycles[Len(cycles)].startTime = SubtractMinutes(SixOClock(Today), each)]_vars

\* the first day has no ET, no rainfall and no sunrise; the zone irrigated on
\* it from the depletion it started with, before 06:00
C18_Witness ==
    /\ JustIrrigated
    /\ dayIndex = 1
    /\ weatherHistory[1].evapotranspirationMmPerDay = None
    /\ weatherHistory[1].rainfallMm = None
    /\ weatherHistory[1].sunrise = None
    /\ day.depletionBeforeIrrigation = ledger.initial
    /\ RGt(ledger.initial, Zero)
    /\ IsFinite(RunTimeT)
    /\ day.sunrise = SixOClock(weatherHistory[1])
    /\ CycleFromLatest(1).startTime < SixOClock(weatherHistory[1])

----------------------------------------------------------------------------
(* C19.  No division by zero.                                              *)

\* C19: in every call for a zone within the caller's preconditions (every
\* zone of Zones is: flow rate not negative, area not zero, efficiency and
\* Kc in (0, 1], positive root depth and AWHC) the precipitation rate that
\* divides for the total runtime and the maximum cycle is strictly positive,
\* and every depth and every cycle duration of the schedule is finite.
C19_NeverDividesByZero ==
    pc \in {"loop", "check"} =>
        /\ RGt(RateOf, Zero)
        /\ \A n \in 1..Len(irrigationSchedule) :
              /\ IsFinite(irrigationSchedule[n].appliedDepthMm)
              /\ IsFinite(irrigationSchedule[n].depletionBeforeMm)
              /\ IsFinite(irrigationSchedule[n].depletionAfterMm)
              /\ \A k \in 1..Len(irrigationSchedule[n].cycles) :
                    IsFinite(irrigationSchedule[n].cycles[k].durationMin)

----------------------------------------------------------------------------
(* C20.  Determinism, no state between calls, inputs untouched.            *)

\* the finished calls made with the arguments of the current one
SameArguments ==
    {n \in 1..Len(returned) :
        returned[n].zone = zone /\ returned[n].weatherHistory = weatherHistory}

----------------------------------------------------------------------------
(* C21.  The precipitation rate.                                           *)

\* 60 * flow / area, the rate a zone without an explicit one has
DerivedRate == RMul(Int2Rat(60), RDiv(zone.flowRateLPerMin, zone.areaM2))

\* the rate the claim expects the kernel to divide by
ExpectedRate ==
    IF zone.precipitationRateMmPerHr # None
    THEN zone.precipitationRateMmPerHr[1]
    ELSE DerivedRate

----------------------------------------------------------------------------
(* C22.  The soak interval.                                                *)

\* the soak table of the specification, band by band, for a rate in mm/hr
SoakOfBand(i) ==
    IF RGeq(i, Int2Rat(20)) THEN Int2Rat(15)
    ELSE IF RGeq(i, Int2Rat(12)) /\ RLt(i, Int2Rat(20)) THEN Int2Rat(25)
    ELSE IF RGeq(i, Int2Rat(8)) /\ RLt(i, Int2Rat(12)) THEN Int2Rat(35)
    ELSE IF RGeq(i, Int2Rat(5)) /\ RLt(i, Int2Rat(8)) THEN Int2Rat(45)
    ELSE Int2Rat(60)

\* C22: the soak between the cycles of a zone is 15 min for an infiltration
\* rate i >= 20 mm/hr, 25 for 12 <= i < 20, 35 for 8 <= i < 12, 45 for
\* 5 <= i < 8 and 60 for i < 5, i = 0 included; no soil with a higher rate
\* has a longer soak; the boundaries 20, 12, 8 and 5 have the shorter soak of
\* the two bands they separate; and two consecutive cycles start one cycle
\* and that soak apart.
C22_SoakSteps ==
    /\ soakTimeMinutes(zone) = SoakOfBand(InfiltrationOf)
    /\ \A k \in SoilRateTenths :
          RLeq(InfiltrationOf, Tenths(k))
            => RGeq(soakTimeMinutes(zone), estimateSoakMinutes(Tenths(k)))
    /\ (InfiltrationOf = Int2Rat(20) => soakTimeMinutes(zone) = Int2Rat(15))
    /\ (InfiltrationOf = Int2Rat(12) => soakTimeMinutes(zone) = Int2Rat(25))
    /\ (InfiltrationOf = Int2Rat(8) => soakTimeMinutes(zone) = Int2Rat(35))
    /\ (InfiltrationOf = Int2Rat(5) => soakTimeMinutes(zone) = Int2Rat(45))
    /\ (InfiltrationOf = Zero => soakTimeMinutes(zone) = Int2Rat(60))
    /\ (JustIrrigated /\ Len(CyclesPlanned) >= 2) =>
          LET apart == CyclesPlanned[2].startTime - CyclesPlanned[1].startTime
              exact == RMul(RAdd(EachD, SoakOfBand(InfiltrationOf)), Int2Rat(MsPerMinute))
          IN  MathFloor(exact) <= apart /\ apart <= MathCeil(exact)

\* a soil exactly on the 12 mm/hr boundary has split an irrigation into
\* cycles 25 min of soak apart
C22_Witness ==
    /\ JustIrrigated
    /\ InfiltrationOf = Int2Rat(12)
    /\ Len(CyclesPlanned) >= 2
    /\ soakTimeMinutes(zone) = Int2Rat(25)

----------------------------------------------------------------------------
(* C24.  A precipitation rate that does not exceed the infiltration rate.  *)

\* C24 as stated: an entry of a zone whose precipitation rate does not exceed
\* the infiltration rate of its soil has exactly one cycle.
C24_OneCycleBelowInfiltration ==
    (JustIrrigated /\ RLeq(RateOf, InfiltrationOf)) => Len(CyclesPlanned) = 1

\* C24: for a zone whose positive precipitation rate does not exceed the
\* infiltration rate of its soil the maximum cycle is at least 60 minutes,
\* and an entry has exactly one cycle if and only if its gross depth in mm
\* does not exceed the infiltration rate in mm/hr, that is one hour of
\* infiltration; a larger gross depth is split even though the rate is below
\* the infiltration rate.
C24_OneCycleWithinHourOfInfiltration ==
    (JustIrrigated /\ RGt(RateOf, Zero) /\ RLeq(RateOf, InfiltrationOf)) =>
        /\ RGeq(day.maximumCycleMinutes, Int2Rat(60))
        /\ (Len(CyclesPlanned) = 1
              <=> RLeq(day.grossIrrigationDepthMillimeters, InfiltrationOf))

\* a zone that sprinkles 9 mm/hr on a soil that takes 25 mm/hr has had an
\* irrigation split in two
C24_Witness ==
    /\ JustIrrigated
    /\ RGt(RateOf, Zero)
    /\ RLeq(RateOf, InfiltrationOf)
    /\ Len(CyclesPlanned) = 2
    /\ RGt(day.grossIrrigationDepthMillimeters, InfiltrationOf)

----------------------------------------------------------------------------
(* C25.  Rain suppression.                                                 *)

\* the day brings at least 2 mm of rain and its effective 0.8 * rain covers
\* the crop ET
RainCoversET(weatherDay) ==
    /\ RGeq(RainOf(weatherDay), Int2Rat(2))
    /\ RGeq(RMul(Rat(4, 5), RainOf(weatherDay)), CropETOf(weatherDay))

\* the clamped initial depletion is below RAW and rain covers the ET of
\* every day of the weather
RainSuppresses ==
    /\ RLt(InitialDepletionOf, RAW)
    /\ \A n \in 1..Len(weatherHistory) : RainCoversET(weatherHistory[n])

\* C25: if the clamped initial depletion is below RAW and every day of the
\* weather has at least 2 mm of rain with 0.8 * rainfall >= Kc * max(0, ET0),
\* then no step of the loop increases the running depletion, it stays below
\* RAW, and the schedule stays empty, however long the weather.
C25_RainSuppression ==
    [][(RainSuppresses /\ pc \in {"loop", "check"}) =>
          /\ RLeq(currentDepletionMillimeters', currentDepletionMillimeters)
          /\ RLt(currentDepletionMillimeters', RAW)
          /\ irrigationSchedule' = <<>>]_vars

\* the longest weather, every day with rain that covers the ET and the last
\* day with rain that exactly equals it, went by with no entry and left the
\* depletion lower than it started
C25_Witness ==
    /\ pc = "done"
    /\ RainSuppresses
    /\ ~isDisabled(zone)
    /\ Len(weatherHistory) = MaxDays
    /\ RMul(Rat(4, 5), RainOf(weatherHistory[MaxDays])) = CropETOf(weatherHistory[MaxDays])
    /\ RLt(currentDepletionMillimeters, InitialDepletionOf)
    /\ irrigationSchedule = <<>>

----------------------------------------------------------------------------
(* C26.  Recurring irrigation in a dry period.                             *)

\* every day has rainfall below 2 mm and the same crop ET, which is positive
DryPeriod ==
    /\ weatherHistory # <<>>
    /\ RGt(CropETOf(weatherHistory[1]), Zero)
    /\ \A n \in 1..Len(weatherHistory) :
          /\ RLt(RainOf(weatherHistory[n]), Int2Rat(2))
          /\ CropETOf(weatherHistory[n]) = CropETOf(weatherHistory[1])

\* ceil(RAW / ETc), the length of the runs of days of the claim
RunOfDays == MathCeil(RDiv(RAW, CropETOf(weatherHistory[1])))

\* the schedule has an entry dated as day n of the weather
EntryOnDay(n) ==
    \E e \in 1..Len(irrigationSchedule) :
        irrigationSchedule[e].date = weatherHistory[n].date

\* C26: in a dry period (every day with rainfall below 2 mm and the same
\* ETc = Kc * ET0 > 0) planned for an enabled zone, every run of
\* ceil(RAW / ETc) consecutive days that the loop has gone through contains a
\* day with an entry; a day on which the depletion has reached RAW gets its
\* entry; and once the loop has gone through two such runs the schedule has
\* more than one entry.
C26_RecurringIrrigation ==
    (DryPeriod /\ zone.isEnabled # Some(FALSE)) =>
        /\ pc \in {"loop", "done"} =>
              /\ \A j \in 1..(dayIndex - RunOfDays + 1) :
                    \E n \in j..(j + RunOfDays - 1) : EntryOnDay(n)
              /\ (dayIndex >= 2 * RunOfDays => Len(irrigationSchedule) >= 2)
        /\ (pc = "loop" /\ dayIndex >= 1 /\ ~day.irrigated) =>
              RLt(currentDepletionMillimeters, RAW)

\* a dry period of two runs of three days or more is over for a zone that
\* started full: the first entry came on the last day of the first run, with
\* the depletion at RAW exactly, and a second entry followed
C26_Witness ==
    /\ pc = "done"
    /\ DryPeriod
    /\ RunOfDays >= 3
    /\ dayIndex >= 2 * RunOfDays
    /\ Len(irrigationSchedule) >= 2
    /\ irrigationSchedule[1].date = weatherHistory[RunOfDays].date
    /\ irrigationSchedule[1].depletionBeforeMm = RAW

-----------------------------------------------------------------------------
(* C27, C28, C29: two zones that differ in one respect, the same weather.  *)

\* both calls have returned: the first zone's schedule is kept in returned,
\* the second zone's is irrigationSchedule
TwoPlans == pc = "done" /\ Len(returned) = 1

FirstZone == returned[1].zone

FirstSchedule == returned[1].schedule

\* entry by entry, schedule more applies at least the depth schedule less does
AppliesAtLeast(more, less) ==
    /\ Len(more) = Len(less)
    /\ \A k \in 1..Len(more) : RGeq(more[k].appliedDepthMm, less[k].appliedDepthMm)

\* C27: of two zones identical except for the irrigation efficiency, planned
\* with the same weather, the less efficient one gets a schedule with the
\* same number of entries and, entry by entry, an appliedDepthMm at least as
\* large as the more efficient one's.
C27_LowerEfficiencyAppliesMore ==
    (TwoPlans /\ SameButEfficiency(FirstZone, zone)) =>
        /\ RLt(FirstZone.irrigationEfficiency, zone.irrigationEfficiency)
              => AppliesAtLeast(FirstSchedule, irrigationSchedule)
        /\ RLt(zone.irrigationEfficiency, FirstZone.irrigationEfficiency)
              => AppliesAtLeast(irrigationSchedule, FirstSchedule)

\* the zone at 60 % and the same zone at 80 % both got two entries, and the
\* first entry of the less efficient zone applies strictly more
C27_Witness ==
    /\ TwoPlans
    /\ SameButEfficiency(FirstZone, zone)
    /\ FirstZone.irrigationEfficiency = Tenths(6)
    /\ zone.irrigationEfficiency = Tenths(8)
    /\ Len(irrigationSchedule) >= 2
    /\ Len(FirstSchedule) = Len(irrigationSchedule)
    /\ RGt(FirstSchedule[1].appliedDepthMm, irrigationSchedule[1].appliedDepthMm)

\* a non-empty schedule later comes with a non-empty schedule earlier whose
\* first entry is dated no later
StartsNoLater(earlier, later) ==
    later # <<>> => (earlier # <<>> /\ earlier[1].date <= later[1].date)

\* C28: of two zones identical except for the allowable depletion fraction,
\* planned with the same weather, whenever the zone with the larger fraction
\* has a non-empty schedule the zone with the smaller fraction has one too,
\* and its first entry is dated no later.
C28_ConservativeTriggersEarlier ==
    (TwoPlans /\ SameButDepletionFraction(FirstZone, zone)) =>
        /\ RLt(FirstZone.allowableDepletionFraction, zone.allowableDepletionFraction)
              => StartsNoLater(FirstSchedule, irrigationSchedule)
        /\ RLt(zone.allowableDepletionFraction, FirstZone.allowableDepletionFraction)
              => StartsNoLater(irrigationSchedule, FirstSchedule)

\* the zone at 30 % was irrigated before the same zone at 70 % was
C28_Witness ==
    /\ TwoPlans
    /\ SameButDepletionFraction(FirstZone, zone)
    /\ RLt(FirstZone.allowableDepletionFraction, zone.allowableDepletionFraction)
    /\ irrigationSchedule # <<>>
    /\ FirstSchedule # <<>>
    /\ FirstSchedule[1].date < irrigationSchedule[1].date

\* the dates and the depletions of a schedule, entry by entry
DatesAndDepletions(schedule) ==
    [k \in 1..Len(schedule) |->
        [date              |-> schedule[k].date,
         depletionBeforeMm |-> schedule[k].depletionBeforeMm,
         depletionAfterMm  |-> schedule[k].depletionAfterMm]]

\* C29: two zones that differ only in irrigation efficiency, flow rate, area,
\* explicit precipitation rate or soil infiltration rate, planned with the
\* same weather, get schedules with identical dates, depletionBeforeMm and
\* depletionAfterMm.
C29_DeliveryDoesNotMoveDates ==
    (TwoPlans /\ SameButDelivery(FirstZone, zone)) =>
        DatesAndDepletions(FirstSchedule) = DatesAndDepletions(irrigationSchedule)

\* two zones that differ in efficiency, area, explicit rate and infiltration
\* rate got two entries each, with another applied depth and other cycles
C29_Witness ==
    /\ TwoPlans
    /\ SameButDelivery(FirstZone, zone)
    /\ FirstZone.irrigationEfficiency # zone.irrigationEfficiency
    /\ FirstZone.areaM2 # zone.areaM2
    /\ FirstZone.precipitationRateMmPerHr # zone.precipitationRateMmPerHr
    /\ FirstZone.soil.infiltrationRateMmPerHr # zone.soil.infiltrationRateMmPerHr
    /\ Len(irrigationSchedule) >= 2
    /\ FirstSchedule[1].appliedDepthMm # irrigationSchedule[1].appliedDepthMm
    /\ FirstSchedule[1].cycles # irrigationSchedule[1].cycles
    /\ DatesAndDepletions(FirstSchedule) = DatesAndDepletions(irrigationSchedule)

-----------------------------------------------------------------------------
(* C30: the watering window of an entry and the sunrise of the day before. *)

\* the entry just pushed is for a day that follows, in the weather, the
\* calendar day before it, and both days have the sunrise at the same clock time
FollowsDayBefore ==
    /\ JustIrrigated
    /\ dayIndex >= 2
    /\ weatherHistory[dayIndex].date = weatherHistory[dayIndex - 1].date + 1
    /\ resolveSunrise(weatherHistory[dayIndex])
         = resolveSunrise(weatherHistory[dayIndex - 1]) + MsPerDay

\* C30: the first cycle of an entry for such a day starts no earlier than the
\* sunrise of the day before, that is, T + (N - 1) * K is at most the 24 hours
\* between the two sunrises.
C30_WindowsDoNotOverlap ==
    (FollowsDayBefore /\ CyclesPlanned # <<>>) =>
        /\ CyclesPlanned[1].startTime >= resolveSunrise(weatherHistory[dayIndex - 1])
        /\ RLeq(RAdd(RunTimeT, RMul(Int2Rat(Len(CyclesPlanned) - 1), SoakK)),
                Int2Rat(24 * 60))

-----------------------------------------------------------------------------
(* C23: getWeatherData fails or returns a complete list.                   *)

WeatherCallOver == weatherCall.pc \in {"returned", "rejected"}

\* the call is over and rejected, with an error and no list
Rejected ==
    /\ weatherCall.pc = "rejected"
    /\ weatherCall.error # None
    /\ weatherCall.dailyData = None

FetchRejected == weatherCall.response = None

ResponseNotOk == weatherCall.response # None /\ ~weatherCall.response[1].ok

BodyNotJson ==
    /\ weatherCall.response # None
    /\ weatherCall.response[1].ok
    /\ weatherCall.response[1].json = None

HasBody == weatherCall.response # None /\ weatherCall.response[1].json # None

Body == weatherCall.response[1].json[1]

TimeMissing == HasBody /\ (Body.daily = None \/ Body.daily[1].time = None)

\* daily.time has elements and the sunrise, rain_sum or ET0 array is missing
OtherArrayMissing ==
    /\ HasBody
    /\ ~TimeMissing
    /\ Body.daily[1].time[1] # <<>>
    /\ \/ Body.daily[1].sunrise = None
       \/ Body.daily[1].rain_sum = None
       \/ Body.daily[1].et0_fao_evapotranspiration = None

\* the array a of the body, empty when the body has none
ArrayOf(a) == IF a = None THEN <<>> ELSE a[1]

\* the call returned one DailyWeather per element of daily.time, in the same
\* order, element i built from position i of the four arrays
ReturnedComplete ==
    /\ weatherCall.pc = "returned"
    /\ weatherCall.error = None
    /\ weatherCall.dailyData # None
    /\ LET list  == weatherCall.dailyData[1]
           daily == Body.daily[1]
           time  == daily.time[1]
       IN  /\ Len(list) = Len(time)
           /\ \A i \in 1..Len(time) :
                 /\ list[i].date = parseDate(time[i])
                 /\ list[i].sunrise =
                        (IF i <= Len(ArrayOf(daily.sunrise))
                         THEN parseDate(ArrayOf(daily.sunrise)[i]) ELSE weatherCall.now)
                 /\ list[i].rainfallMm = At(ArrayOf(daily.rain_sum), i)
                 /\ list[i].evapotranspirationMmPerDay =
                        At(ArrayOf(daily.et0_fao_evapotranspiration), i)

\* C23 as stated: the call rejects, with no list, when the fetch rejects, the
\* response is not ok, the body is not JSON or daily.time is missing; in
\* every other case it returns one DailyWeather per element of daily.time,
\* in the same order, element i built from index i of the sunrise, rain_sum
\* and ET0 arrays.  No list exists before the call returns.
C23_FailsOrReturnsComplete ==
    /\ weatherCall.pc # "returned" => weatherCall.dailyData = None
    /\ WeatherCallOver =>
          IF FetchRejected \/ ResponseNotOk \/ BodyNotJson \/ TimeMissing
          THEN Rejected
          ELSE ReturnedComplete

\* C23, amended: the call also rejects, with no list, when daily.time has
\* elements and the sunrise, rain_sum or ET0 array is missing from the body;
\* it rejects when the fetch rejects, the response is not ok, the body is not
\* JSON or daily.time is missing; in every other case it returns one
\* DailyWeather per element of daily.time, in the same order, element i built
\* from index i of the sunrise, rain_sum and ET0 arrays (undefined, and the
\* current time for the sunrise, past the end of an array).  No list exists
\* before the call returns.
C23_FailsOnMissingArrayOrReturnsComplete ==
    /\ weatherCall.pc # "returned" => weatherCall.dailyData = None
    /\ WeatherCallOver =>
          IF \/ FetchRejected \/ ResponseNotOk \/ BodyNotJson \/ TimeMissing
             \/ OtherArrayMissing
          THEN Rejected
          ELSE ReturnedComplete

\* a response with the dates 1970-01-03 and 1970-01-04 (days 2 and 3 from
\* the epoch), two sunrises of which the second is not a date, one rainfall
\* and two ET0 readings came back as two records
C23_Witness ==
    /\ ReturnedComplete
    /\ Len(weatherCall.dailyData[1]) = 2
    /\ Body.daily[1].time[1][1] = <<"1", "9", "7", "0", "-", "0", "1", "-", "0", "3">>
    /\ weatherCall.dailyData[1][1].date = AtClock(2, 0, 0)
    /\ weatherCall.dailyData[1][2].date = AtClock(3, 0, 0)
    /\ weatherCall.dailyData[1][1].sunrise = AtClock(2, 5, 43)
    /\ weatherCall.dailyData[1][2].sunrise = InvalidDate
    /\ weatherCall.dailyData[1][1].rainfallMm = Some(<<2, 10>>)
    /\ weatherCall.dailyData[1][2].rainfallMm = None
    /\ weatherCall.dailyData[1][2].evapotranspirationMmPerDay = Some(Hundredths(161))

============================================================================
